---- MODULE Spec2Model ----
(***************************************************************************)
(* A model of CodeCity's snapshot code (src/server/serialize.js):          *)
(* Serializer.serialize walks the host object graph rooted at the          *)
(* interpreter and emits one JSON-compatible record per object;            *)
(* Serializer.deserialize rebuilds the graph inside an initialised         *)
(* interpreter in two passes (stubs, then contents).                       *)
(*                                                                         *)
(* The object graph is a heap of host objects.  A value is a record        *)
(* [t, n, s]: t is the kind, n an integer payload, s a string payload.     *)
(* Objects are named by handles: Ref(n) is heap object n (0 is the         *)
(* interpreter), Fn(id) is the native function registered under id, and    *)
(* Raw(loc) is a node of the JSON input that the decoder handed back       *)
(* undecoded (the plain object {'#': 0} found at slot loc of the input).   *)
(***************************************************************************)
EXTENDS Integers, Sequences, FiniteSets, TLC

VARIABLES heap, ops, phase, json, serr, corrupts, target, tlist, derr, dmsg,
          hooks,
          iws, life,
          prog, intrp, states, scopes, host, obs,
          threads, runq, slice,
          pool, rendered

vars == <<heap, ops, phase, json, serr, corrupts, target, tlist, derr, dmsg,
          hooks, iws, life, prog, intrp, states, scopes,
          host, obs, threads, runq, slice, pool, rendered>>

\* The variables of the weak set and of the step interpreter, which the
\* snapshot code leaves alone.
serVars == <<heap, ops, phase, json, serr, corrupts, target, tlist, derr, dmsg,
             hooks>>
weakVars == <<iws, life>>
goVars == <<prog, intrp, states, scopes, host, obs>>
schedVars == <<threads, runq, slice>>
codeVars == <<pool, rendered>>

\* A thread of the scheduler: its status, the steps it still has to run,
\* whether it has been killed; waited counts the slices other threads got
\* since it joined the runnable queue, peers the length of the queue when
\* it joined, itself included.
MaxThreads == 3
Thread(status, work, killed, waited, peers) ==
  [status |-> status, work |-> work, killed |-> killed, waited |-> waited,
   peers |-> peers]
NoThread == Thread("none", 0, FALSE, 0, 0)

\* What the last tick did: the thread it advanced, by how many steps, and
\* where the thread went.
Slice(thread, steps, to) == [thread |-> thread, steps |-> steps, to |-> to]
NoSlice == Slice(0, 0, "")

\* What the last call of $.utils.code.toSource returned or threw.
Source(call, arg, out, err) == [call |-> call, arg |-> arg, out |-> out, err |-> err]

\* Values of package object (src/unnamed/part_001 computes with them): t is
\* the type, n/d the number of a Number (d = 0 for the infinities and NaN),
\* s the text of a String, p the properties of an Object in the order they
\* were set.  Nil is Go's nil.
GoVal(t, n, d, s, p) == [t |-> t, n |-> n, d |-> d, s |-> s, p |-> p]
Nil == GoVal("nil", 0, 1, "", <<>>)

\* The nodes of the abstract syntax tree (package ast): type is the node
\* type, name an identifier's or declared name, op an operator, raw a
\* literal's source text, kids the child nodes in source order.  NoNode is
\* the nil of an absent optional child (an if without else, a declarator
\* without initialiser).
Node(type, name, op, raw, kids) ==
  [type |-> type, name |-> name, op |-> op, raw |-> raw, kids |-> kids]
NoNode == Node("nil", "", "", "", <<>>)

\* What the last call into package interpreter did: the function called,
\* what Step returned, and what the call panicked with, if it did; for a
\* call of a scope's method, the scope, the name and the value passed and
\* the value returned.
CallOn(call, this, name, arg, ret, val, err) ==
  [call |-> call, this |-> this, name |-> name, arg |-> arg, ret |-> ret,
   val |-> val, err |-> err]
Call(call, ret, err) == CallOn(call, 0, "", Nil, ret, Nil, err)
NoCall == Call("", "", "")

\* What the last step did: the kind and the AST node of the state that
\* stepped, whether it returned its parent, the value it passed to
\* acceptValue, and, of the state it returned, the kind and the acceptValue
\* calls received; of the state that stepped, how often it had started its
\* left and its right operand, and the operand values it held.
Seen(kind, node, up, sent, to, calls, lefts, rights, left, right) ==
  [kind |-> kind, node |-> node, up |-> up, sent |-> sent, to |-> to,
   calls |-> calls, lefts |-> lefts, rights |-> rights, left |-> left,
   right |-> right]
NoObs == Seen("", NoNode, FALSE, Nil, "", 0, 0, 0, Nil, Nil)

\* ------------------------------------------------------------ bounds
MaxObjects == 4
MaxOps == 2
MaxCorrupt == 1

\* ------------------------------------------------------------ values
Val(t, n, s) == [t |-> t, n |-> n, s |-> s]
Undefined == Val("undefined", 0, "")
Null == Val("null", 0, "")
Absent == Val("absent", 0, "")
Num(s) == Val("num", 0, s)
Ref(n) == Val("ref", n, "")
Fn(id) == Val("fn", 0, id)
Raw(loc) == Val("raw", loc, "")
StdProto(cls) == Val("proto", 0, cls)
Throw(e, n) == Val("throw", n, e)

\* what the encoder emits for non-plain values
JRef(k) == Val("#", k, "")
JNumber(s) == Val("Number", 0, s)
JValue(s) == Val("Value", 0, s)

SpecialNumbers == {"-0", "Infinity", "-Infinity", "NaN"}
PrimValues == {Undefined, Null, Num("0")} \cup {Num(s) : s \in SpecialNumbers}

\* value && (typeof value === 'object' || typeof value === 'function')
IsObject(v) == v.t \in {"ref", "fn", "raw"}

\* ------------------------------------------------------------ objects
KeyOrder ==
  <<"global", "a", "b", "runner_", "socket", "#", "refs_", "map_",
    "finalisers_">>
AllKeys == {KeyOrder[i] : i \in 1..Len(KeyOrder)}

Slot(v, c, e, w) == [v |-> v, c |-> c, e |-> e, w |-> w]
NoSlot == Slot(Absent, TRUE, TRUE, TRUE)
NoProps == [k \in AllKeys |-> NoSlot]

Item(k, v) == [k |-> k, v |-> v]

\* The book-keeping a weak container's constructor gives it: own properties
\* holding host structures that are no part of the saved graph.
Internal == Val("internal", 0, "")
WeakClasses == {"IterableWeakMap", "IterableWeakSet"}
InternalFields(cls) ==
  CASE cls = "IterableWeakMap" -> {"refs_", "finalisers_"}
    [] cls = "IterableWeakSet" -> {"refs_", "map_", "finalisers_"}
    [] OTHER -> {}

NewStub(cls, data) ==
  [cls |-> cls, proto |-> StdProto(cls),
   props |-> [k \in AllKeys |->
                IF k \in InternalFields(cls)
                THEN Slot(Internal, TRUE, TRUE, TRUE) ELSE NoSlot],
   ext |-> TRUE, items |-> <<>>, id |-> "", data |-> data]

\* The object a handle names.  A native function is a Function whose id
\* is the one it was registered under; a Raw node is the plain object
\* {'#': 0} of the JSON input.
ObjOf(h, hp) ==
  CASE hp.t = "ref" -> h[hp.n + 1]
    [] hp.t = "fn" -> [NewStub("Function", "") EXCEPT !.id = hp.s]
    [] OTHER -> [NewStub("Object", "") EXCEPT
                   !.props = [NoProps EXCEPT !["#"] = Slot(Num("0"), TRUE, TRUE, TRUE)]]

OwnKeys(obj) ==
  SelectSeq(KeyOrder, LAMBDA k : obj.props[k].v # Absent)

InSeq(s, x) == \E i \in 1..Len(s) : s[i] = x
IndexOf(s, x) == (CHOOSE i \in 1..Len(s) : s[i] = x) - 1

\* Classes whose prototype inherits from intrp.Object.prototype.
PseudoClasses ==
  {"PseudoObject", "PseudoFunction", "PseudoUserFunction",
   "PseudoBoundFunction", "PseudoNativeFunction", "PseudoOldNativeFunction",
   "PseudoArray", "PseudoDate", "PseudoRegExp", "PseudoError",
   "PseudoArguments", "PseudoWeakMap", "PseudoThread", "Box", "Server"}

Inherits(cls, base) ==
  \/ cls = base
  \/ base = "PseudoObject" /\ cls \in PseudoClasses

\* obj instanceof base: base.prototype is on obj's prototype chain.
RECURSIVE ProtoChainHas(_, _, _, _)
ProtoChainHas(h, p, base, fuel) ==
  CASE p.t = "proto" -> Inherits(p.s, base)
    [] p.t \in {"ref", "fn", "raw"} ->
         IF fuel = 0 THEN FALSE
         ELSE ProtoChainHas(h, ObjOf(h, p).proto, base, fuel - 1)
    [] OTHER -> FALSE

InstanceOf(h, obj, base) == ProtoChainHas(h, obj.proto, base, Len(h) + 1)

\* Would making p the prototype of heap object n close a prototype cycle?
RECURSIVE ChainReaches(_, _, _, _)
ChainReaches(h, p, n, fuel) ==
  CASE p.t = "ref" ->
         IF p.n = n THEN TRUE
         ELSE IF fuel = 0 THEN FALSE
         ELSE ChainReaches(h, h[p.n + 1].proto, n, fuel - 1)
    [] OTHER -> FALSE

\* ------------------------------------------------------------ interpreter
\* The native-function table of an initialised interpreter: the builtins
\* (each with up to three implementation functions) and the step functions.
Builtins ==
  <<[impl |-> "f1", call |-> "", construct |-> ""],
    [impl |-> "", call |-> "f2", construct |-> "f3"]>>
StepFuncs == <<"s1">>

\* An initialised interpreter: the root object and its global scope.
FreshHeap ==
  <<[NewStub("Interpreter", "") EXCEPT
       !.props = [NoProps EXCEPT !["global"] = Slot(Ref(1), TRUE, TRUE, TRUE)]],
    NewStub("Scope", "")>>

\* ------------------------------------------------------------ host writes
\* obj[key] = v
PutProp(obj, k, v) ==
  IF obj.props[k].v = Absent
  THEN IF obj.ext
       THEN [obj EXCEPT !.props[k] = Slot(v, TRUE, TRUE, TRUE)]
       ELSE obj
  ELSE IF obj.props[k].w THEN [obj EXCEPT !.props[k].v = v] ELSE obj

\* Set.prototype.add / Map.prototype.set: SameValueZero keys, -0 kept as +0,
\* insertion order, an existing key keeps its place.
KeyNorm(v) == IF v = Num("-0") THEN Num("0") ELSE v

CollSet(items, k, v) ==
  LET kk == KeyNorm(k) IN
  IF \E i \in 1..Len(items) : items[i].k = kk
  THEN [i \in 1..Len(items) |->
          IF items[i].k = kk THEN Item(kk, v) ELSE items[i]]
  ELSE Append(items, Item(kk, v))

\* a set member is an item with a key and no value
CollAdd(items, v) == CollSet(items, v, Absent)

\* ------------------------------------------------------------ tables
\* an exclude set that was left empty
ExcludeNothing == {}

ExcludeTypes == {StdProto("net.Socket"), StdProto("net.Server")}

\* prune lists that were left empty
PruneNothing(proto) == {}

PruneProperties(proto) ==
  CASE proto = StdProto("Interpreter") ->
         {"hrStartTime_", "previousTime_", "runner_", "Object", "Function",
          "UserFunction", "BoundFunction", "NativeFunction",
          "OldNativeFunction", "Array", "Date", "RegExp", "Error",
          "Arguments", "WeakMap", "Thread", "Box", "Server"}
    [] proto = StdProto("IterableWeakMap") -> {"refs_", "finalisers_"}
    [] proto = StdProto("IterableWeakSet") -> {"refs_", "map_", "finalisers_"}
    [] OTHER -> {}

\* The keys of the constructor table.
GetTypesDeserialize ==
  {"Interpreter", "Scope", "State", "Thread", "PropertyIterator", "Source",
   "PseudoObject", "PseudoFunction", "PseudoUserFunction",
   "PseudoBoundFunction", "PseudoNativeFunction", "PseudoOldNativeFunction",
   "PseudoArray", "PseudoDate", "PseudoRegExp", "PseudoError",
   "PseudoArguments", "PseudoWeakMap", "PseudoThread", "Box", "Server",
   "Node"}

\* prototype -> type name ("" when the prototype is not a constructor's).
GetTypesSerialize(proto) ==
  IF proto.t = "proto" /\ proto.s \in GetTypesDeserialize THEN proto.s ELSE ""

\* ------------------------------------------------------------ the walk
\* The values objectHunt_ recurses into from one object, in order: own
\* properties that are not pruned, then set members, then map keys and
\* values.  A function is recorded but not searched.
HuntChildren(h, node) ==
  IF node.t = "fn" THEN <<>>
  ELSE
    LET obj == ObjOf(h, node)
        prune == PruneProperties(obj.proto)
        keys == SelectSeq(OwnKeys(obj), LAMBDA k : k \notin prune)
        pv == [i \in 1..Len(keys) |-> obj.props[keys[i]].v]
        members ==
          IF InstanceOf(h, obj, "Set") \/ InstanceOf(h, obj, "IterableWeakSet")
          THEN [i \in 1..Len(obj.items) |-> obj.items[i].k]
          ELSE <<>>
        entries ==
          IF InstanceOf(h, obj, "Map") \/ InstanceOf(h, obj, "IterableWeakMap")
          THEN [i \in 1..(2 * Len(obj.items)) |->
                  IF i % 2 = 1 THEN obj.items[(i + 1) \div 2].k
                  ELSE obj.items[i \div 2].v]
          ELSE <<>>
    IN pv \o members \o entries

\* objectHunt_ adding the object at every visit (seen as a list, not a Set);
\* the object is searched at its first visit only
RECURSIVE ObjectHuntEveryVisit(_, _, _)
ObjectHuntEveryVisit(h, todo, seen) ==
  IF todo = <<>> THEN seen
  ELSE
    LET node == Head(todo)
        rest == Tail(todo)
    IN IF ~IsObject(node) THEN ObjectHuntEveryVisit(h, rest, seen)
       ELSE IF ObjOf(h, node).proto \in ExcludeTypes
            THEN ObjectHuntEveryVisit(h, rest, seen)
            ELSE IF InSeq(seen, node)
                 THEN ObjectHuntEveryVisit(h, rest, Append(seen, node))
                 ELSE ObjectHuntEveryVisit(h, HuntChildren(h, node) \o rest,
                                           Append(seen, node))

\* objectHunt_ as a depth-first search with an explicit stack: todo holds
\* the pending calls, nearest first; seen is the insertion-ordered Set.
RECURSIVE ObjectHunt(_, _, _)
ObjectHunt(h, todo, seen) ==
  IF todo = <<>> THEN seen
  ELSE
    LET node == Head(todo)
        rest == Tail(todo)
    IN IF ~IsObject(node) THEN ObjectHunt(h, rest, seen)
       ELSE IF ObjOf(h, node).proto \in ExcludeTypes \/ InSeq(seen, node)
            THEN ObjectHunt(h, rest, seen)
            ELSE ObjectHunt(h, HuntChildren(h, node) \o rest,
                            Append(seen, node))

GetObjectList(h, node) == ObjectHunt(h, <<node>>, <<>>)

\* ------------------------------------------------------------ serialize
\* encodeValue without its last branch, the one for -0
EncodeValueNoNegZero(h, list, value) ==
  IF IsObject(value)
  THEN IF ObjOf(h, value).proto \in ExcludeTypes THEN Null
       ELSE IF ~InSeq(list, value) THEN Throw("RangeError", 0)
       ELSE JRef(IndexOf(list, value))
  ELSE IF value = Undefined THEN JValue("undefined")
  ELSE IF value.t = "num"
       THEN IF value.s = "Infinity" THEN JNumber("Infinity")
            ELSE IF value.s = "-Infinity" THEN JNumber("-Infinity")
            ELSE IF value.s = "NaN" THEN JNumber("NaN")
            ELSE value
  ELSE value

EncodeValue(h, list, value) ==
  IF IsObject(value)
  THEN IF ObjOf(h, value).proto \in ExcludeTypes THEN Null
       ELSE IF ~InSeq(list, value) THEN Throw("RangeError", 0)
       ELSE JRef(IndexOf(list, value))
  ELSE IF value = Undefined THEN JValue("undefined")
  ELSE IF value.t = "num"
       THEN IF value.s = "Infinity" THEN JNumber("Infinity")
            ELSE IF value.s = "-Infinity" THEN JNumber("-Infinity")
            ELSE IF value.s = "NaN" THEN JNumber("NaN")
            ELSE IF value.s = "-0" THEN JNumber("-0")
            ELSE value
  ELSE value

\* the record without its '#' field set to the position
BlankRecUnnumbered(i) ==
  [num |-> 0, type |-> "", id |-> "", data |-> "",
   hasProto |-> FALSE, proto |-> Absent,
   hasProps |-> FALSE, props |-> [k \in AllKeys |-> Absent],
   nonConfigurable |-> {}, nonEnumerable |-> {}, nonWritable |-> {},
   hasItems |-> FALSE, items |-> <<>>, isExtensible |-> TRUE]

BlankRec(i) ==
  [num |-> i, type |-> "", id |-> "", data |-> "",
   hasProto |-> FALSE, proto |-> Absent,
   hasProps |-> FALSE, props |-> [k \in AllKeys |-> Absent],
   nonConfigurable |-> {}, nonEnumerable |-> {}, nonWritable |-> {},
   hasItems |-> FALSE, items |-> <<>>, isExtensible |-> TRUE]

BuiltinProtos ==
  {"Object", "Function", "Array", "Date", "RegExp", "Map", "Set",
   "IterableWeakMap", "IterableWeakSet", "Registry"}

\* The cases of the switch that end in 'continue'.
NoPropsIndexed ==
  {"Function", "Date", "RegExp", "IterableWeakMap", "IterableWeakSet"}

EncodeItems(h, list, obj, pairs) ==
  [i \in 1..Len(obj.items) |->
     Item(EncodeValue(h, list, obj.items[i].k),
          IF pairs THEN EncodeValue(h, list, obj.items[i].v) ELSE Absent)]

\* One iteration of serialize's loop: the record of list[i] (0-based i),
\* or the error it throws.
EncodeRecord(h, list, i) ==
  LET node == list[i + 1]
      obj == ObjOf(h, node)
      proto == obj.proto
      builtin == proto.t = "proto" /\ proto.s \in BuiltinProtos
      tname == GetTypesSerialize(proto)
      type == IF builtin THEN proto.s
              ELSE IF tname # "" THEN tname
              ELSE IF obj.cls = "Array" THEN "Array" ELSE "Object"
      emitProto == ~builtin /\ tname = ""
      jproto == IF emitProto THEN EncodeValue(h, list, proto) ELSE Absent
      emitItems == builtin /\ obj.items # <<>>
                     /\ proto.s \in {"Map", "Set", "IterableWeakMap",
                                     "IterableWeakSet"}
      jitems == IF emitItems
                THEN EncodeItems(h, list, obj,
                                 proto.s \in {"Map", "IterableWeakMap"})
                ELSE <<>>
      cont == builtin /\ proto.s \in NoPropsIndexed
      prune == PruneProperties(proto)
      keys == SelectSeq(OwnKeys(obj), LAMBDA k :
                 /\ k \notin prune
                 /\ ~(InstanceOf(h, obj, "PseudoObject") /\ k = "socket"))
      kset == {keys[j] : j \in 1..Len(keys)}
      jprops == [k \in AllKeys |->
                   IF k \in kset THEN EncodeValue(h, list, obj.props[k].v)
                   ELSE Absent]
      thrown == \/ jproto.t = "throw"
                \/ \E j \in 1..Len(jitems) :
                     jitems[j].k.t = "throw" \/ jitems[j].v.t = "throw"
                \/ ~cont /\ \E k \in kset : jprops[k].t = "throw"
      head == [BlankRec(i) EXCEPT
                 !.type = type,
                 !.id = IF type = "Function" /\ builtin THEN obj.id ELSE "",
                 !.data = IF builtin /\ type \in {"Date", "RegExp"}
                          THEN obj.data ELSE "",
                 !.hasProto = emitProto, !.proto = jproto,
                 !.hasItems = emitItems, !.items = jitems]
  IN IF builtin /\ type = "Function" /\ obj.id = ""
     THEN [rec |-> head, err |-> "Error"]
     ELSE IF thrown THEN [rec |-> head, err |-> "RangeError"]
     ELSE IF cont THEN [rec |-> head, err |-> ""]
     ELSE [rec |-> [head EXCEPT
                      \* the names of the keys array always include 'length'
                      !.hasProps = Len(keys) + 1 > 0,
                      !.props = jprops,
                      !.nonConfigurable = {k \in kset : ~obj.props[k].c},
                      !.nonEnumerable = {k \in kset : ~obj.props[k].e},
                      !.nonWritable = {k \in kset : ~obj.props[k].w},
                      !.isExtensible = obj.ext],
           err |-> ""]

SetMin(S) == CHOOSE x \in S : \A y \in S : x <= y

\* Serializer.serialize(intrp), intrp being heap object 0.
Serialize(h) ==
  LET list == GetObjectList(h, Ref(0))
      outs == [i \in 1..Len(list) |-> EncodeRecord(h, list, i - 1)]
      bad == {i \in 1..Len(list) : outs[i].err # ""}
  IN IF bad = {}
     THEN [err |-> "", recs |-> [i \in 1..Len(list) |-> outs[i].rec]]
     ELSE [err |-> outs[SetMin(bad)].err, recs |-> <<>>]

\* ------------------------------------------------------------ deserialize
\* Number(data) for the strings the model uses.
NumberOf(str) ==
  IF str \in {"0", "-0", "Infinity", "-Infinity", "NaN"} THEN Num(str)
  ELSE Num("NaN")

\* JavaScript truthiness of a value of the model.
Truthy(v) ==
  v \notin {Absent, Undefined, Null, Num("0"), Num("-0"), Num("NaN")}

\* The identity of the JSON node in slot s of record i.
Loc(i, s) == i * 100 + s

\* decodeValue with the {'Value': ...} marker decoded as JSON null
DecodeValueUndefinedAsNull(list, value, loc) ==
  IF value.t \in {"#", "Number", "Value"}
  THEN IF value.t = "#" /\ value.n # 0
       THEN IF value.n \in 0..(Len(list) - 1) THEN list[value.n + 1]
            ELSE Throw("ReferenceError", value.n)
       ELSE IF value.t = "Number" /\ value.s # "" THEN NumberOf(value.s)
       ELSE IF value.t = "Value" /\ value.s = "undefined" THEN Null
       ELSE Raw(loc)
  ELSE value

\* decodeValue without the check that objectList[data] exists
DecodeValueNoCheck(list, value, loc) ==
  IF value.t \in {"#", "Number", "Value"}
  THEN IF value.t = "#" /\ value.n # 0
       THEN IF value.n \in 0..(Len(list) - 1) THEN list[value.n + 1]
            ELSE Undefined
       ELSE IF value.t = "Number" /\ value.s # "" THEN NumberOf(value.s)
       ELSE IF value.t = "Value" /\ value.s = "undefined" THEN Undefined
       ELSE Raw(loc)
  ELSE value

\* decodeValue: list is objectList, loc the place of value in the input.
DecodeValue(list, value, loc) ==
  IF value.t \in {"#", "Number", "Value"}
  THEN IF value.t = "#" /\ value.n # 0
       THEN IF value.n \in 0..(Len(list) - 1) THEN list[value.n + 1]
            ELSE Throw("ReferenceError", value.n)
       ELSE IF value.t = "Number" /\ value.s # "" THEN NumberOf(value.s)
       ELSE IF value.t = "Value" /\ value.s = "undefined" THEN Undefined
       ELSE Raw(loc)
  ELSE value

\* functionHash filled from the builtins' impl alone
FunctionHashImplOnly(id) ==
  IF id \in ({Builtins[i].impl : i \in 1..Len(Builtins)} \ {""})
  THEN Fn(id) ELSE Absent

\* functionHash[id], Absent when no registered function has that id.
FunctionHash(id) ==
  LET impls == UNION {{Builtins[i].impl, Builtins[i].call,
                       Builtins[i].construct} : i \in 1..Len(Builtins)}
      steps == {StepFuncs[i] : i \in 1..Len(StepFuncs)}
  IN IF id \in (impls \ {""}) \cup steps THEN Fn(id) ELSE Absent

\* isNaN(new Date(data)) is false
ValidDate(data) == data \in {"d1", "d2"}

Fail(d, e, n, m) == [d EXCEPT !.err = e, !.msg = Val("msg", n, m)]

\* constructors[type].  The table is an object literal, so besides its
\* own keys the lookup finds what every object inherits from
\* Object.prototype: 'constructor' is Object itself, the other members are
\* no constructors.
ObjectPrototypeMembers ==
  {"constructor", "toString", "toLocaleString", "valueOf", "hasOwnProperty",
   "isPrototypeOf", "propertyIsEnumerable", "__proto__"}

ConstructorsLookup(type) ==
  IF type \in GetTypesDeserialize \cup {"constructor"} THEN "constructor"
  ELSE IF type \in ObjectPrototypeMembers THEN "other"
  ELSE "undefined"

\* The body of the first pass: the stub of one record.
MakeStub(r, d) ==
  LET fresh(cls, data) ==
        [d EXCEPT !.h = Append(d.h, NewStub(cls, data)),
                  !.list = Append(d.list, Ref(Len(d.h)))]
  IN CASE r.type = "Function" ->
            IF FunctionHash(r.id) = Absent
            THEN Fail(d, "RangeError", 0, r.id)
            ELSE [d EXCEPT !.list = Append(d.list, FunctionHash(r.id))]
       [] r.type = "Date" ->
            IF ValidDate(r.data) THEN fresh("Date", r.data)
            ELSE Fail(d, "TypeError", 0, r.data)
       [] r.type = "RegExp" -> fresh("RegExp", r.data)
       [] r.type \in {"Object", "Array", "Map", "Set", "IterableWeakMap",
                      "IterableWeakSet", "Registry", "State"} ->
            fresh(r.type, "")
       [] ConstructorsLookup(r.type) = "constructor" ->
            fresh(IF r.type \in GetTypesDeserialize THEN r.type ELSE "Object",
                  "")
       [] ConstructorsLookup(r.type) = "other" ->
            \* 'new' of a value that is no constructor
            Fail(d, "TypeError", 0, "not a constructor")
       [] OTHER -> Fail(d, "TypeError", 0, r.type)

RECURSIVE FirstPass(_, _, _)
FirstPass(recs, i, d) ==
  IF d.err # "" \/ i >= Len(recs) THEN d
  ELSE FirstPass(recs, i + 1, MakeStub(recs[i + 1], d))

\* Object.setPrototypeOf(obj, p), obj being heap object n.
SetPrototypeOf(d, n, p) ==
  LET obj == d.h[n + 1] IN
  IF ~(IsObject(p) \/ p = Null) THEN Fail(d, "TypeError", 0, "proto")
  ELSE IF p = obj.proto THEN d
  ELSE IF ~obj.ext \/ ChainReaches(d.h, p, n, Len(d.h))
       THEN Fail(d, "TypeError", 0, "proto")
       ELSE [d EXCEPT !.h[n + 1].proto = p]

\* the property installed by plain assignment, obj[key] = value
DefinePropertyDefaults(d, n, key, slot) ==
  [d EXCEPT !.h[n + 1] = PutProp(@, key, slot.v)]

\* Object.defineProperty(obj, key, {configurable, enumerable, writable, value})
DefineProperty(d, n, key, slot) ==
  LET obj == d.h[n + 1]
      cur == obj.props[key]
  IN IF cur.v = Absent
     THEN IF obj.ext THEN [d EXCEPT !.h[n + 1].props[key] = slot]
          ELSE Fail(d, "TypeError", 0, key)
     ELSE IF ~cur.c /\ (slot.c \/ slot.e # cur.e
                        \/ (~cur.w /\ (slot.w \/ slot.v # cur.v)))
          THEN Fail(d, "TypeError", 0, key)
          ELSE [d EXCEPT !.h[n + 1].props[key] = slot]

\* The writes the second pass makes for record r (at index i), in order.
RecordWrites(r, i) ==
  LET keys == SelectSeq(KeyOrder, LAMBDA k : r.props[k] # Absent)
      W(op, key, jk, jv, s) ==
        [op |-> op, key |-> key, jk |-> jk, jv |-> jv, loc |-> Loc(i, s)]
  IN (IF r.hasProto /\ Truthy(r.proto)
      THEN <<W("proto", "", Absent, r.proto, 0)>> ELSE <<>>)
     \o (IF r.hasProps
         THEN [j \in 1..Len(keys) |-> W("prop", keys[j], Absent,
                                          r.props[keys[j]], j)]
         ELSE <<>>)
     \o (IF r.hasItems
         THEN [j \in 1..Len(r.items) |-> W("item", "", r.items[j].k,
                                            r.items[j].v, 20 + 2 * j)]
         ELSE <<>>)
     \o (IF r.isExtensible = FALSE
         THEN <<W("preventExtensions", "", Absent, Absent, 0)>> ELSE <<>>)

\* One write of the second pass on objectList[i], heap object n.
ApplyWrite(w, r, d, n) ==
  LET obj == d.h[n + 1]
      isSet == InstanceOf(d.h, obj, "Set")
                 \/ InstanceOf(d.h, obj, "IterableWeakSet")
      isMap == InstanceOf(d.h, obj, "Map")
                 \/ InstanceOf(d.h, obj, "IterableWeakMap")
      \* a weak container holds objects only
      weak == InstanceOf(d.h, obj, "IterableWeakSet")
                \/ InstanceOf(d.h, obj, "IterableWeakMap")
      dk == DecodeValue(d.list, w.jk, w.loc)
      dv == DecodeValue(d.list, w.jv, w.loc + 1)
  IN CASE w.op = "proto" ->
            IF dv.t = "throw" THEN Fail(d, dv.s, dv.n, "")
            ELSE SetPrototypeOf(d, n, dv)
       [] w.op = "prop" ->
            IF dv.t = "throw" THEN Fail(d, dv.s, dv.n, "")
            ELSE DefineProperty(d, n, w.key,
                   Slot(dv, w.key \notin r.nonConfigurable,
                        w.key \notin r.nonEnumerable,
                        w.key \notin r.nonWritable))
       [] w.op = "item" /\ isSet ->
            \* the member is in 'data'
            IF dk.t = "throw" THEN Fail(d, dk.s, dk.n, "")
            ELSE IF weak /\ ~IsObject(dk)
                 THEN Fail(d, "TypeError", 0, "Invalid value used in weak set")
                 ELSE [d EXCEPT !.h[n + 1].items = CollAdd(obj.items, dk)]
       [] w.op = "item" /\ isMap ->
            \* the pair is in 'entries'
            IF dk.t = "throw" THEN Fail(d, dk.s, dk.n, "")
            ELSE IF dv.t = "throw" THEN Fail(d, dv.s, dv.n, "")
            ELSE IF weak /\ ~IsObject(dk)
                 THEN Fail(d, "TypeError", 0, "Invalid value used as weak map key")
                 ELSE [d EXCEPT !.h[n + 1].items = CollSet(obj.items, dk, dv)]
       [] w.op = "preventExtensions" -> [d EXCEPT !.h[n + 1].ext = FALSE]
       [] OTHER -> d

RECURSIVE ApplyWrites(_, _, _, _)
ApplyWrites(ws, r, d, n) ==
  IF d.err # "" \/ ws = <<>> THEN d
  ELSE ApplyWrites(Tail(ws), r, ApplyWrite(Head(ws), r, d, n), n)

\* The body of the second pass for record i.  The encoder gives a native
\* function's record nothing to write, and the function's own state is
\* not part of the heap.
PopulateRecord(recs, i, d) ==
  IF d.list[i + 1].t = "ref"
  THEN ApplyWrites(RecordWrites(recs[i + 1], i), recs[i + 1], d,
                   d.list[i + 1].n)
  ELSE d

RECURSIVE SecondPass(_, _, _)
SecondPass(recs, i, d) ==
  IF d.err # "" \/ i >= Len(recs) THEN d
  ELSE SecondPass(recs, i + 1, PopulateRecord(recs, i, d))

\* deserialize without the Array.isArray test: a top level that is no
\* array has no length, and neither loop runs
DeserializeNoShapeCheck(j, h0) ==
  LET d0 == [h |-> h0, list |-> <<Ref(0)>>, err |-> "",
             msg |-> Val("msg", 0, ""), post |-> FALSE]
      recs == IF j.isArray THEN j.recs ELSE <<>>
  IN IF ~Truthy(h0[1].props["global"].v)
     THEN Fail(d0, "Error", 0, "Interpreter must be initialized")
     ELSE LET d1 == FirstPass(recs, 1, d0)
              d2 == SecondPass(recs, 0, d1)
          IN [d2 EXCEPT !.post = (d2.err = "")]

\* deserialize without the test of intrp.global
DeserializeNoInitCheck(j, h0) ==
  LET d0 == [h |-> h0, list |-> <<Ref(0)>>, err |-> "",
             msg |-> Val("msg", 0, ""), post |-> FALSE]
  IN IF ~j.isArray THEN Fail(d0, "TypeError", 0, "Top-level JSON is not a list.")
     ELSE LET d1 == FirstPass(j.recs, 1, d0)
              d2 == SecondPass(j.recs, 0, d1)
          IN [d2 EXCEPT !.post = (d2.err = "")]

\* deserialize calling postDeserialize however the passes ended
DeserializePostAlways(j, h0) ==
  LET d0 == [h |-> h0, list |-> <<Ref(0)>>, err |-> "",
             msg |-> Val("msg", 0, ""), post |-> TRUE]
  IN IF ~j.isArray THEN Fail(d0, "TypeError", 0, "Top-level JSON is not a list.")
     ELSE IF ~Truthy(h0[1].props["global"].v)
          THEN Fail(d0, "Error", 0, "Interpreter must be initialized")
          ELSE LET d1 == FirstPass(j.recs, 1, d0)
                   d2 == SecondPass(j.recs, 0, d1)
               IN d2

\* Serializer.deserialize(json, intrp): h0 is the heap of the interpreter
\* decoded into (object 0 is intrp).  The result holds the heap as the call
\* leaves it, objectList, the error thrown ("" for a normal return) and
\* whether postDeserialize was called.
Deserialize(j, h0) ==
  LET d0 == [h |-> h0, list |-> <<Ref(0)>>, err |-> "",
             msg |-> Val("msg", 0, ""), post |-> FALSE]
  IN IF ~j.isArray THEN Fail(d0, "TypeError", 0, "Top-level JSON is not a list.")
     ELSE IF ~Truthy(h0[1].props["global"].v)
          THEN Fail(d0, "Error", 0, "Interpreter must be initialized")
          ELSE LET d1 == FirstPass(j.recs, 1, d0)
                   d2 == SecondPass(j.recs, 0, d1)
               IN [d2 EXCEPT !.post = (d2.err = "")]

\* ------------------------------------------------------------ the system
NoMsg == Val("msg", 0, "")

Init ==
  /\ heap = FreshHeap
  /\ ops = 0
  /\ phase = "run"
  /\ json = [isArray |-> TRUE, recs |-> <<>>]
  /\ serr = ""
  /\ corrupts = 0
  /\ target = FreshHeap
  /\ tlist = <<>>
  /\ derr = ""
  /\ dmsg = NoMsg
  /\ hooks = <<>>
  /\ iws = <<>> /\ life = <<>>
  /\ prog = NoNode /\ intrp = [state |-> 0, value |-> Nil] /\ states = <<>>
  /\ scopes = <<>> /\ host = NoCall /\ obs = NoObs
  /\ threads = [t \in 1..MaxThreads |-> NoThread] /\ runq = <<>> /\ slice = NoSlice
  /\ pool = <<>> /\ rendered = Source(FALSE, Undefined, "", "")

\* What the running program may store, and where.
NewClasses == {"Object", "Array", "Map", "Set", "Date"}
WriteKeys == {"a", "b"}
Ids(h) == 0..(Len(h) - 1)
Handles(h) == {Ref(n) : n \in Ids(h)} \cup {Fn("f1")}
Values(h) == PrimValues \cup Handles(h)
HoldsProps(obj) == obj.cls \notin NoPropsIndexed

Mutate(h) ==
  /\ heap' = h
  /\ ops' = ops + 1
  /\ UNCHANGED <<weakVars, goVars, schedVars, codeVars>>
  /\ UNCHANGED <<phase, json, serr, corrupts, target, tlist, derr, dmsg,
                 hooks>>

\* o[k] = new cls
NewObject(o, k, cls) ==
  /\ phase = "run" /\ ops < MaxOps /\ Len(heap) < MaxObjects
  /\ HoldsProps(heap[o + 1])
  /\ Mutate(Append([heap EXCEPT ![o + 1] = PutProp(@, k, Ref(Len(heap)))],
                   NewStub(cls, IF cls = "Date" THEN "d1" ELSE "")))

\* o[k] = v
SetProp(o, k, v) ==
  /\ phase = "run" /\ ops < MaxOps
  /\ HoldsProps(heap[o + 1])
  /\ heap[o + 1].props[k].v # v
  /\ Mutate([heap EXCEPT ![o + 1] = PutProp(@, k, v)])

\* Object.setPrototypeOf(o, p), which rejects a prototype cycle
SetProto(o, p) ==
  /\ phase = "run" /\ ops < MaxOps
  /\ heap[o + 1].cls \in {"Object", "Array"}
  /\ heap[o + 1].ext
  /\ heap[o + 1].proto # p
  /\ ~ChainReaches(heap, p, o, Len(heap))
  /\ Mutate([heap EXCEPT ![o + 1].proto = p])

\* o.add(v)
SetAdd(o, v) ==
  /\ phase = "run" /\ ops < MaxOps
  /\ heap[o + 1].cls \in {"Set", "IterableWeakSet"}
  /\ heap[o + 1].cls \in WeakClasses => IsObject(v)
  /\ CollAdd(heap[o + 1].items, v) # heap[o + 1].items
  /\ Mutate([heap EXCEPT ![o + 1].items = CollAdd(@, v)])

\* o.set(k, v)
MapSet(o, k, v) ==
  /\ phase = "run" /\ ops < MaxOps
  /\ heap[o + 1].cls \in {"Map", "IterableWeakMap"}
  /\ heap[o + 1].cls \in WeakClasses => IsObject(k)
  /\ CollSet(heap[o + 1].items, k, v) # heap[o + 1].items
  /\ Mutate([heap EXCEPT ![o + 1].items = CollSet(@, k, v)])

\* json = Serializer.serialize(intrp)
DoSerialize ==
  /\ phase = "run"
  /\ LET out == Serialize(heap) IN
       /\ json' = [isArray |-> TRUE, recs |-> out.recs]
       /\ serr' = out.err
  /\ phase' = "saved"
  /\ hooks' = Append(hooks, "preSerialize")
  /\ UNCHANGED <<weakVars, goVars, schedVars, codeVars>>
  /\ UNCHANGED <<heap, ops, corrupts, target, tlist, derr, dmsg>>

\* The snapshot is damaged between save and restore.
Damage(j) ==
  /\ phase = "saved" /\ serr = "" /\ corrupts < MaxCorrupt
  /\ json' = j
  /\ corrupts' = corrupts + 1
  /\ UNCHANGED <<weakVars, goVars, schedVars, codeVars>>
  /\ UNCHANGED <<heap, ops, phase, serr, target, tlist, derr, dmsg, hooks>>

RefTargets == -1..Len(json.recs)

CorruptPropRef(i, k, n) ==
  /\ json.recs[i].props[k].t = "#"
  /\ json.recs[i].props[k].n # n
  /\ Damage([json EXCEPT !.recs[i].props[k] = JRef(n)])

CorruptProtoRef(i, n) ==
  /\ json.recs[i].proto.t = "#"
  /\ json.recs[i].proto.n # n
  /\ Damage([json EXCEPT !.recs[i].proto = JRef(n)])

CorruptItemRef(i, j, f, n) ==
  /\ json.recs[i].items[j][f].t = "#"
  /\ json.recs[i].items[j][f].n # n
  /\ Damage([json EXCEPT !.recs[i].items[j][f] = JRef(n)])

CorruptType(i, tag) ==
  /\ json.recs[i].type # tag
  /\ Damage([json EXCEPT !.recs[i].type = tag])

CorruptFunctionId(i, id) ==
  /\ json.recs[i].type = "Function"
  /\ json.recs[i].id # id
  /\ Damage([json EXCEPT !.recs[i].id = id])

CorruptDate(i) ==
  /\ json.recs[i].type = "Date"
  /\ Damage([json EXCEPT !.recs[i].data = "bogus"])

CorruptTopLevel ==
  /\ json.isArray
  /\ Damage([isArray |-> FALSE, recs |-> <<>>])

\* Serializer.deserialize(json, intrp) into a freshly initialised interpreter
DoDeserialize ==
  /\ phase = "saved" /\ serr = ""
  /\ LET d == Deserialize(json, target) IN
       /\ target' = d.h
       /\ tlist' = d.list
       /\ derr' = d.err
       /\ dmsg' = d.msg
       /\ hooks' = IF d.post THEN Append(hooks, "postDeserialize") ELSE hooks
  /\ phase' = "restored"
  /\ UNCHANGED <<weakVars, goVars, schedVars, codeVars>>
  /\ UNCHANGED <<heap, ops, json, serr, corrupts>>

Next ==
  \/ \E o \in Ids(heap), k \in WriteKeys, cls \in NewClasses :
       NewObject(o, k, cls)
  \/ \E o \in Ids(heap), k \in WriteKeys, v \in Values(heap) : SetProp(o, k, v)
  \/ \E o \in Ids(heap), p \in {Null} \cup {Ref(n) : n \in Ids(heap)} :
       SetProto(o, p)
  \/ \E o \in Ids(heap), v \in Values(heap) : SetAdd(o, v)
  \/ \E o \in Ids(heap), k \in Values(heap), v \in Values(heap) :
       MapSet(o, k, v)
  \/ DoSerialize
  \/ \E i \in 1..Len(json.recs), k \in AllKeys, n \in RefTargets :
       CorruptPropRef(i, k, n)
  \/ \E i \in 1..Len(json.recs), n \in RefTargets : CorruptProtoRef(i, n)
  \/ \E i \in 1..Len(json.recs), j \in 1..MaxOps, f \in {"k", "v"},
          n \in RefTargets :
       j <= Len(json.recs[i].items) /\ CorruptItemRef(i, j, f, n)
  \/ \E i \in 1..Len(json.recs), tag \in {"Bogus", "constructor"} :
       CorruptType(i, tag)
  \/ \E i \in 1..Len(json.recs), id \in {"f2", "f9"} : CorruptFunctionId(i, id)
  \/ \E i \in 1..Len(json.recs) : CorruptDate(i)
  \/ CorruptTopLevel
  \/ DoDeserialize

Spec == Init /\ [][Next]_vars

\* ------------------------------------------------------------ host graphs
\* The same program, saving graphs that hold what a running server has:
\* sockets, pseudo-objects with a 'socket' slot, the interpreter's runner_,
\* properties with attributes, frozen objects, prototypes made for one
\* object.  The snapshot is restored as it was written.
GraphClasses ==
  {"Object", "PseudoObject", "net.Socket", "Set", "Map", "Date",
   "IterableWeakMap", "IterableWeakSet"}
GraphKeys == {"a", "runner_", "socket"}
GraphValues(h) == {Null} \cup {Ref(n) : n \in Ids(h)}

\* An interpreter that was constructed and not initialised: no global scope.
BareHeap == <<NewStub("Interpreter", "")>>

\* Object.setPrototypeOf(o, new cls): a prototype nothing else refers to
NewPrototype(o, cls) ==
  /\ phase = "run" /\ ops < MaxOps /\ Len(heap) < MaxObjects
  /\ heap[o + 1].cls \in {"Object", "Array"}
  /\ heap[o + 1].ext
  /\ Mutate(Append([heap EXCEPT ![o + 1].proto = Ref(Len(heap))],
                   NewStub(cls, "")))

\* o.add(new cls) on a Set, o.set(new cls, null) on a Map
NewMember(o, cls) ==
  /\ phase = "run" /\ ops < MaxOps /\ Len(heap) < MaxObjects
  /\ heap[o + 1].cls \in {"Set", "Map"} \cup WeakClasses
  /\ Mutate(Append([heap EXCEPT ![o + 1].items =
                      IF heap[o + 1].cls \in {"Set", "IterableWeakSet"}
                      THEN CollAdd(@, Ref(Len(heap)))
                      ELSE CollSet(@, Ref(Len(heap)), Null)],
                   NewStub(cls, "")))

\* Object.defineProperty(o, k, {configurable: c, enumerable: e, writable: w})
DefineAttributes(o, k, c, e, w) ==
  /\ phase = "run" /\ ops < MaxOps
  /\ heap[o + 1].props[k].v # Absent
  /\ heap[o + 1].props[k].c
  /\ heap[o + 1].props[k] # Slot(heap[o + 1].props[k].v, c, e, w)
  /\ Mutate([heap EXCEPT ![o + 1].props[k] = Slot(@.v, c, e, w)])

\* Object.preventExtensions(o)
PreventExtensions(o) ==
  /\ phase = "run" /\ ops < MaxOps
  /\ heap[o + 1].ext
  /\ Mutate([heap EXCEPT ![o + 1].ext = FALSE])

\* The interpreter handed to deserialize is one that was not initialised.
UseUninitialised ==
  /\ phase = "saved" /\ serr = ""
  /\ target = FreshHeap
  /\ target' = BareHeap
  /\ UNCHANGED <<weakVars, goVars, schedVars, codeVars>>
  /\ UNCHANGED <<heap, ops, phase, json, serr, corrupts, tlist, derr, dmsg,
                 hooks>>

GraphNext ==
  \/ \E o \in Ids(heap), k \in GraphKeys, cls \in GraphClasses :
       NewObject(o, k, cls)
  \/ \E o \in Ids(heap), cls \in {"Object", "net.Socket"} : NewPrototype(o, cls)
  \/ \E o \in Ids(heap), cls \in {"Object", "net.Socket"} : NewMember(o, cls)
  \/ \E o \in Ids(heap), k \in GraphKeys, v \in GraphValues(heap) :
       SetProp(o, k, v)
  \/ \E o \in Ids(heap), v \in GraphValues(heap) : SetAdd(o, v)
  \/ \E o \in Ids(heap), k \in GraphValues(heap), v \in GraphValues(heap) :
       MapSet(o, k, v)
  \/ \E o \in Ids(heap), k \in AllKeys, c \in BOOLEAN, e \in BOOLEAN,
          w \in BOOLEAN :
       DefineAttributes(o, k, c, e, w)
  \/ \E o \in Ids(heap) : PreventExtensions(o)
  \/ DoSerialize
  \/ UseUninitialised
  \/ DoDeserialize

GraphSpec == Init /\ [][GraphNext]_vars

\* ------------------------------------------------------------ properties
\* The objects serialize numbered, in order; record i (1-based) of an
\* undamaged snapshot describes SrcList[i], and tlist[i] is its stub.
SrcList == GetObjectList(heap, Ref(0))
Restored == phase = "restored"
RoundTripped == Restored /\ corrupts = 0 /\ derr = ""

\* The value slots of the snapshot: properties, prototypes, set members,
\* map keys and map values.
PropSlots ==
  {[i |-> i, kind |-> "prop", key |-> k, j |-> 0] :
     i \in 1..Len(json.recs), k \in AllKeys}
ProtoSlots ==
  {[i |-> i, kind |-> "proto", key |-> "", j |-> 0] : i \in 1..Len(json.recs)}
ItemSlots ==
  {[i |-> i, kind |-> f, key |-> "", j |-> j] :
     i \in 1..Len(json.recs), f \in {"k", "v"}, j \in 1..MaxOps}

JsonAt(sl) ==
  LET r == json.recs[sl.i] IN
  CASE sl.kind = "prop" -> IF r.hasProps THEN r.props[sl.key] ELSE Absent
    [] sl.kind = "proto" -> IF r.hasProto THEN r.proto ELSE Absent
    [] OTHER -> IF r.hasItems /\ sl.j <= Len(r.items)
                THEN r.items[sl.j][sl.kind] ELSE Absent

Slots == {sl \in PropSlots \cup ProtoSlots \cup ItemSlots : JsonAt(sl) # Absent}

ValueAt(h, list, sl) ==
  LET obj == ObjOf(h, list[sl.i]) IN
  CASE sl.kind = "prop" -> obj.props[sl.key].v
    [] sl.kind = "proto" -> obj.proto
    [] OTHER -> IF sl.j <= Len(obj.items) THEN obj.items[sl.j][sl.kind]
                ELSE Absent

SrcAt(sl) == ValueAt(heap, SrcList, sl)
TgtAt(sl) == ValueAt(target, tlist, sl)

\* The restored counterpart of a value of the saved graph.
Image(v) ==
  IF IsObject(v) /\ InSeq(SrcList, v) THEN tlist[IndexOf(SrcList, v) + 1]
  ELSE v

Isomorphic ==
  /\ Len(tlist) = Len(SrcList)
  /\ \A i \in 1..Len(SrcList) :
       ObjOf(target, tlist[i]).cls = ObjOf(heap, SrcList[i]).cls
  /\ \A sl \in Slots : TgtAt(sl) = Image(SrcAt(sl))

\* C1: round trip.  Decoding what serialize wrote, into a freshly
\* initialised interpreter, gives a graph isomorphic to the saved one
\* (types, properties, entries, members, prototypes), and serializing the
\* restored graph gives the same snapshot again.
C1_RoundTrip ==
  RoundTripped =>
    /\ Isomorphic
    /\ Serialize(target) = [err |-> "", recs |-> json.recs]

\* C2: reference sharing.  Two slots of the saved graph that hold the same
\* object are written as the same {'#': k} and hold one and the same object
\* after the restore.
C2_ReferenceSharing ==
  RoundTripped =>
    \A s1, s2 \in Slots :
      (IsObject(SrcAt(s1)) /\ SrcAt(s1) = SrcAt(s2)) =>
        /\ JsonAt(s1).t = "#" /\ JsonAt(s1) = JsonAt(s2)
        /\ IsObject(TgtAt(s1)) /\ TgtAt(s1) = TgtAt(s2)

\* C3: every reference {'#': n} with 0 <= n < length, n = 0 included,
\* decodes to the object allocated for record n.
C3_ReferenceDecodesToRecord ==
  (Restored /\ derr = "") =>
    \A sl \in Slots :
      (JsonAt(sl).t = "#" /\ JsonAt(sl).n \in 0..(Len(json.recs) - 1)) =>
        TgtAt(sl) = tlist[JsonAt(sl).n + 1]

\* The objects the interpreter was made of before the decode.
PreDecodeIntact == SubSeq(target, 1, Len(FreshHeap)) = FreshHeap

\* C4: decode is all-or-nothing.  When deserialize fails, the interpreter
\* decoded into is as it was before the call.
C4_AllOrNothing ==
  (Restored /\ derr # "") => PreDecodeIntact

\* The slots of the saved graph that serialize is to write: the values of
\* the objects it numbered, leaving out what the format leaves out (pruned
\* properties, the socket slot, the properties of the kinds that have none
\* indexed).
Indexed(sl) ==
  LET obj == ObjOf(heap, SrcList[sl.i]) IN
  CASE sl.kind = "prop" ->
         /\ obj.proto \notin {StdProto(c) : c \in NoPropsIndexed}
         /\ sl.key \notin PruneProperties(obj.proto)
         /\ ~(sl.key = "socket" /\ InstanceOf(heap, obj, "PseudoObject"))
    [] sl.kind = "proto" -> FALSE
    [] OTHER -> obj.proto \in {StdProto("Map"), StdProto("Set"),
                               StdProto("IterableWeakMap"),
                               StdProto("IterableWeakSet")}

SrcSlots ==
  {sl \in PropSlots \cup ItemSlots :
     sl.i <= Len(SrcList) /\ SrcAt(sl) # Absent /\ Indexed(sl)}

\* C5: numeric fidelity.  -0, Infinity, -Infinity and NaN, held by a
\* property, a map key, a map value or a set member, are each written as
\* their own {'Number': ...} marker and restored as the same number (-0 as
\* -0, not 0).
C5_NumericFidelity ==
  RoundTripped =>
    \A sl \in SrcSlots : \A n \in SpecialNumbers :
      SrcAt(sl) = Num(n) => JsonAt(sl) = JNumber(n) /\ TgtAt(sl) = Num(n)

C5_Witness ==
  /\ RoundTripped
  /\ \E sl \in SrcSlots : sl.kind = "v" /\ SrcAt(sl) = Num("-0")
                            /\ TgtAt(sl) = Num("-0")
  /\ \E sl \in SrcSlots : sl.kind = "k" /\ SrcAt(sl) = Num("NaN")

\* C6: an undefined property is written as {'Value': 'undefined'} and is,
\* after the restore, an own property holding undefined (not missing, not
\* null); a null property stays null.
C6_UndefinedAndNull ==
  RoundTripped =>
    \A sl \in SrcSlots :
      sl.kind = "prop" =>
        /\ SrcAt(sl) = Undefined =>
             JsonAt(sl) = JValue("undefined") /\ TgtAt(sl) = Undefined
        /\ SrcAt(sl) = Null => JsonAt(sl) = Null /\ TgtAt(sl) = Null

C6_Witness ==
  /\ RoundTripped
  /\ \E s1, s2 \in SrcSlots :
       /\ s1.kind = "prop" /\ SrcAt(s1) = Undefined /\ TgtAt(s1) = Undefined
       /\ s2.kind = "prop" /\ SrcAt(s2) = Null /\ TgtAt(s2) = Null

\* What makes the first pass fail on record i (1-based, i > 1), read off
\* the snapshot and the interpreter's tables.
RegisteredIds ==
  ({Builtins[b][f] : b \in 1..Len(Builtins),
                     f \in {"impl", "call", "construct"}} \ {""})
    \cup {StepFuncs[i] : i \in 1..Len(StepFuncs)}
KnownTags ==
  {"Object", "Function", "Array", "Date", "RegExp", "Map", "Set",
   "IterableWeakMap", "IterableWeakSet", "Registry", "State"}
    \cup GetTypesDeserialize
UnknownTag(i) == json.recs[i].type \notin KnownTags
UnknownFunction(i) ==
  json.recs[i].type = "Function" /\ json.recs[i].id \notin RegisteredIds
InvalidDate(i) ==
  json.recs[i].type = "Date" /\ json.recs[i].data \notin {"d1", "d2"}
\* the records whose stub the first pass cannot make
StubDefect(i) ==
  \/ UnknownTag(i) /\ ConstructorsLookup(json.recs[i].type) # "constructor"
  \/ UnknownFunction(i)
  \/ InvalidDate(i)
FirstStubDefect(i) ==
  /\ i \in 2..Len(json.recs)
  /\ StubDefect(i)
  /\ \A j \in 2..(i - 1) : ~StubDefect(j)
NoStubDefect == \A i \in 2..Len(json.recs) : ~StubDefect(i)

\* A chain of 'proto' references of the snapshot that leads from record i
\* back to record i.
ProtoLink(i) ==
  LET r == json.recs[i] IN
  IF r.hasProto /\ r.proto.t = "#" /\ r.proto.n \in 1..(Len(json.recs) - 1)
  THEN r.proto.n + 1 ELSE 0
RECURSIVE ProtoLeads(_, _, _)
ProtoLeads(i, to, fuel) ==
  LET nx == ProtoLink(i) IN
  IF nx = 0 \/ fuel = 0 THEN FALSE
  ELSE nx = to \/ ProtoLeads(nx, to, fuel - 1)
HasProtoCycle ==
  \E i \in 1..Len(json.recs) : ProtoLeads(i, i, Len(json.recs))

Dangling(sl) ==
  JsonAt(sl).t = "#" /\ JsonAt(sl).n \notin 0..(Len(json.recs) - 1)

\* C7: a snapshot holding a reference {'#': n} with no record n is never
\* decoded successfully, and the decode fails with a ReferenceError (naming
\* a missing index) unless an earlier defect of the snapshot stops it first.
C7_DanglingReference ==
  (Restored /\ json.isArray /\ \E sl \in Slots : Dangling(sl)) =>
    /\ derr # ""
    /\ (NoStubDefect /\ ~HasProtoCycle) =>
         /\ derr = "ReferenceError"
         /\ \E sl \in Slots : Dangling(sl) /\ dmsg.n = JsonAt(sl).n

C7_Witness ==
  /\ Restored /\ derr = "ReferenceError"
  /\ \E sl \in Slots : Dangling(sl) /\ JsonAt(sl).n = Len(json.recs)
                         /\ sl.kind # "prop"

\* The stubs of the first pass are as their constructors made them.
StubsUntouched ==
  \A n \in (Len(FreshHeap) + 1)..Len(target) :
    target[n] = NewStub(target[n].cls, target[n].data)

\* C8: a record other than record 0 whose type tag is neither built in nor
\* a key of the constructor table makes the decode fail with a TypeError in
\* the first pass: nothing of the interpreter and of the stubs has been
\* written.  (The records before it have stubs the first pass can make.)
C8_UnknownTypeTag ==
  (Restored /\ json.isArray) =>
    \A i \in 2..Len(json.recs) :
      (UnknownTag(i) /\ \A j \in 2..(i - 1) : ~StubDefect(j)) =>
        /\ derr = "TypeError"
        /\ PreDecodeIntact
        /\ StubsUntouched

\* C9: a Function record whose id no registered function has (builtin
\* impl, call, construct or step function) makes the decode fail with a
\* RangeError naming the id; a Function record with a registered id decodes
\* to the function registered under it.
C9_FunctionId ==
  (Restored /\ json.isArray) =>
    \A i \in 2..Len(json.recs) :
      /\ (FirstStubDefect(i) /\ UnknownFunction(i)) =>
           derr = "RangeError" /\ dmsg.s = json.recs[i].id
      /\ (json.recs[i].type = "Function" /\ ~UnknownFunction(i)
            /\ \A j \in 2..(i - 1) : ~StubDefect(j)) =>
           Len(tlist) >= i /\ tlist[i] = Fn(json.recs[i].id)

C9_Witness ==
  /\ Restored /\ derr = "RangeError" /\ dmsg.s = "f9"
  /\ \E i \in 2..Len(json.recs) : UnknownFunction(i)

\* C10 as stated: a top level that is not an array fails with a ShapeError
\* and leaves the interpreter unchanged.
C10_ShapeError ==
  (Restored /\ ~json.isArray) => derr = "ShapeError" /\ target = FreshHeap

\* C10: a top level that is not an array fails with a TypeError; the
\* interpreter is unchanged and postDeserialize is not called.
C10_NotAnArray ==
  (Restored /\ ~json.isArray) =>
    /\ derr = "TypeError"
    /\ target = FreshHeap
    /\ ~InSeq(hooks, "postDeserialize")

C10_Witness == Restored /\ ~json.isArray /\ derr = "TypeError"

\* ------------------------------------------------------------ the saved graph
Saved == phase # "run" /\ serr = ""
Listed == {SrcList[i] : i \in 1..Len(SrcList)}
SrcObj(i) == ObjOf(heap, SrcList[i])

\* An object of a type that is never saved (a socket, a server).
IsExcluded(h, v) ==
  IsObject(v)
    /\ ObjOf(h, v).proto \in {StdProto("net.Socket"), StdProto("net.Server")}

\* The keys of AllKeys that the format prunes for a prototype.
PrunedKeys(proto) ==
  CASE proto = StdProto("Interpreter") -> {"runner_"}
    [] proto = StdProto("IterableWeakMap") -> {"refs_", "finalisers_"}
    [] proto = StdProto("IterableWeakSet") -> {"refs_", "map_", "finalisers_"}
    [] OTHER -> {}

\* The values an object refers to.  mode "walk": own properties that are
\* not pruned, set members, map keys and values; "nosocket": the same
\* without the socket slot of a pseudo-object; "all": every own property,
\* member and entry, and the prototype.
Referenced(h, v, mode) ==
  IF v.t # "ref" THEN {}
  ELSE
    LET obj == ObjOf(h, v)
        keys == {k \in AllKeys :
                   /\ obj.props[k].v # Absent
                   /\ mode = "all" \/ k \notin PrunedKeys(obj.proto)
                   /\ mode # "nosocket"
                        \/ ~(k = "socket" /\ InstanceOf(h, obj, "PseudoObject"))}
    IN {obj.props[k].v : k \in keys}
         \cup {obj.items[j].k : j \in 1..Len(obj.items)}
         \cup {obj.items[j].v : j \in 1..Len(obj.items)}
         \cup (IF mode = "all" THEN {obj.proto} ELSE {})

RECURSIVE Closure(_, _, _)
Closure(h, S, mode) ==
  LET N == S \cup {c \in UNION {Referenced(h, v, mode) : v \in S} :
                     IsObject(c) /\ ~IsExcluded(h, c)}
  IN IF N = S THEN S ELSE Closure(h, N, mode)

\* The objects reachable from the interpreter, sockets and servers and
\* what only they lead to left out.
Reachable(h, mode) == Closure(h, {Ref(0)}, mode)

\* C11: deserialize into an interpreter that was not initialised (it has
\* no global scope) throws an Error and does nothing else: no stub is
\* allocated, no object is written, postDeserialize is not called.
C11_Uninitialised ==
  [][(phase = "saved" /\ phase' = "restored"
        /\ ~Truthy(target[1].props["global"].v))
       => (derr' = "Error" /\ target' = target /\ tlist' = <<Ref(0)>>
             /\ hooks' = hooks)]_vars

C11_Witness ==
  /\ Restored /\ derr = "Error"
  /\ target = BareHeap
  /\ Len(json.recs) >= 3

\* C12: record 0 of a snapshot is the record of the interpreter that was
\* passed to serialize (its type, and its own properties less the pruned
\* ones), and every record's '#' is the record's position.
C12_RecordZeroIsRoot ==
  Saved =>
    /\ Len(json.recs) >= 1
    /\ SrcList[1] = Ref(0)
    /\ json.recs[1].type = "Interpreter"
    /\ \A k \in AllKeys :
         json.recs[1].props[k] # Absent
           <=> (heap[1].props[k].v # Absent /\ k \notin PrunedKeys(heap[1].proto))
    /\ \A i \in 1..Len(json.recs) : json.recs[i].num = i - 1

C12_Witness ==
  /\ phase = "saved" /\ serr = ""
  /\ Len(json.recs) >= 4
  /\ json.recs[4].num = 3
  /\ json.recs[1].props["a"] # Absent

\* The slots of the saved graph that the snapshot has a place for: the
\* indexed properties, members and entries, and the prototypes written.
WrittenSlots ==
  SrcSlots \cup {sl \in ProtoSlots : sl.i <= Len(SrcList) /\ JsonAt(sl) # Absent}

\* Every prototype of a numbered object that the encoder has to refer to
\* is numbered too.
ProtosListed ==
  \A v \in Listed :
    LET p == ObjOf(heap, v).proto IN
    (IsObject(p) /\ ~IsExcluded(heap, p)) => p \in Listed

\* C13: a socket or a server has no record and is not searched (what only
\* it leads to has no record either); every slot holding one is written as
\* null; and serialize does not fail because of one.
C13_ExcludedTypes ==
  /\ \A v \in Listed : ~IsExcluded(heap, v) /\ v \in Reachable(heap, "walk")
  /\ Saved => \A sl \in WrittenSlots :
                IsExcluded(heap, SrcAt(sl)) => JsonAt(sl) = Null
  /\ (phase # "run" /\ ProtosListed) => serr = ""

C13_Witness ==
  /\ phase = "saved" /\ serr = ""
  /\ \E sl \in WrittenSlots :
       /\ IsExcluded(heap, SrcAt(sl)) /\ JsonAt(sl) = Null
       /\ \E k \in AllKeys :
            LET v == ObjOf(heap, SrcAt(sl)).props[k].v IN
            IsObject(v) /\ v \notin Listed

\* C14: every object reachable from the interpreter (along the properties,
\* members and entries the walk follows) has exactly one record; the
\* records are in the order of the first visits: the interpreter first,
\* every other object after an object that refers to it; and every
\* reference written is the position of the record of the object referred
\* to.
C14_EncodedOnce ==
  Saved =>
    /\ Len(json.recs) = Len(SrcList)
    /\ \A i, j \in 1..Len(SrcList) : SrcList[i] = SrcList[j] => i = j
    /\ Listed = Reachable(heap, "walk")
    /\ SrcList[1] = Ref(0)
    /\ \A i \in 2..Len(SrcList) :
         \E j \in 1..(i - 1) : SrcList[i] \in Referenced(heap, SrcList[j], "walk")
    /\ \A sl \in WrittenSlots :
         (IsObject(SrcAt(sl)) /\ ~IsExcluded(heap, SrcAt(sl))) =>
           /\ JsonAt(sl).t = "#"
           /\ JsonAt(sl).n \in 0..(Len(SrcList) - 1)
           /\ SrcList[JsonAt(sl).n + 1] = SrcAt(sl)

\* an object that two objects refer to, one of them the object itself or
\* an object numbered after it
C14_Witness ==
  /\ phase = "saved" /\ serr = ""
  /\ \E s1, s2 \in WrittenSlots :
       /\ s1 # s2
       /\ IsObject(SrcAt(s1)) /\ SrcAt(s1) = SrcAt(s2)
       /\ JsonAt(s1).t = "#" /\ JsonAt(s1) = JsonAt(s2)
       /\ s2.i > JsonAt(s1).n + 1

\* C15: the walk collects every object that the records refer to, a
\* prototype written as 'proto' included, so serialize never fails with
\* 'Object not found in table' (a RangeError).
C15_WalkClosed ==
  phase # "run" => (ProtosListed /\ serr # "RangeError")

\* C16: a property in the prune list of its object's prototype is not in
\* the object's record, and an object that only pruned properties lead to
\* has no record.
C16_Pruned ==
  Saved =>
    /\ \A i \in 1..Len(json.recs) :
         \A k \in PrunedKeys(SrcObj(i).proto) : json.recs[i].props[k] = Absent
    /\ Listed \subseteq Reachable(heap, "walk")

C16_Witness ==
  /\ phase = "saved" /\ serr = ""
  /\ IsObject(heap[1].props["runner_"].v)
  /\ heap[1].props["runner_"].v \notin Listed
  /\ \E k \in AllKeys :
       IsObject(ObjOf(heap, heap[1].props["runner_"].v).props[k].v)

\* C17: the 'socket' slot of a pseudo-object is not in the object's record
\* and is not followed by the walk: an object that only such a slot leads to
\* has no record.
C17_SocketSlot ==
  Saved =>
    /\ \A i \in 1..Len(json.recs) :
         InstanceOf(heap, SrcObj(i), "PseudoObject") =>
           json.recs[i].props["socket"] = Absent
    /\ Listed \subseteq Reachable(heap, "nosocket")

\* C18: every property written to the snapshot has, after the restore, the
\* configurable, enumerable and writable bits it had when it was saved; its
\* key is in nonConfigurable, nonEnumerable, nonWritable exactly when the
\* bit is false.
C18_Attributes ==
  RoundTripped =>
    \A i \in 1..Len(json.recs) : \A k \in AllKeys :
      (json.recs[i].hasProps /\ json.recs[i].props[k] # Absent) =>
        LET s == SrcObj(i).props[k]
            t == ObjOf(target, tlist[i]).props[k]
        IN /\ s.v # Absent /\ t.v # Absent
           /\ t.c = s.c /\ t.e = s.e /\ t.w = s.w
           /\ (k \in json.recs[i].nonConfigurable) = ~s.c
           /\ (k \in json.recs[i].nonEnumerable) = ~s.e
           /\ (k \in json.recs[i].nonWritable) = ~s.w

C18_Witness ==
  /\ RoundTripped
  /\ \E i \in 2..Len(json.recs) : \E k \in AllKeys :
       LET r == json.recs[i]
           t == ObjOf(target, tlist[i]).props[k]
       IN /\ r.hasProps /\ r.props[k] # Absent
          /\ r.nonConfigurable = {k} /\ r.nonEnumerable = {k}
          /\ r.nonWritable = {}
          /\ ~t.c /\ ~t.e /\ t.w

\* C19: a record of any kind has isExtensible false exactly when the object
\* saved is not extensible; the restored object is extensible exactly when
\* the saved one was, and has the properties, members and entries of its
\* record.
C19_Extensibility ==
  /\ Saved => \A i \in 1..Len(json.recs) :
                json.recs[i].isExtensible = SrcObj(i).ext
  /\ RoundTripped =>
       \A i \in 1..Len(json.recs) :
         LET r == json.recs[i]
             t == ObjOf(target, tlist[i])
         IN /\ t.ext = SrcObj(i).ext
            /\ \A k \in AllKeys :
                 (r.hasProps /\ r.props[k] # Absent) => t.props[k].v # Absent
            /\ r.hasItems => Len(t.items) = Len(r.items)

\* The objects that lie on a cycle of properties, members and entries.
OnCycle(v) ==
  v.t = "ref"
    /\ \E c \in Referenced(heap, v, "walk") :
         IsObject(c) /\ ~IsExcluded(heap, c) /\ v \in Closure(heap, {c}, "walk")

\* C20: the walk ends on a graph with cycles, and the restore rebuilds the
\* cycles: a slot that held an object lying on a cycle holds, after the
\* restore, the stub of that object's record.
C20_Cycles ==
  /\ phase # "run" => Listed = Reachable(heap, "walk")
  /\ RoundTripped =>
       \A sl \in WrittenSlots :
         OnCycle(SrcAt(sl)) => TgtAt(sl) = Image(SrcAt(sl))

\* C22: the record of an IterableWeakMap or IterableWeakSet has every live
\* entry of the container, in insertion order, and none of the container's
\* book-keeping fields; the restored container holds the restored
\* counterpart of every entry.
C22_WeakContainers ==
  /\ Saved =>
       \A i \in 1..Len(json.recs) :
         SrcObj(i).cls \in WeakClasses =>
           LET r == json.recs[i]
               src == SrcObj(i).items
           IN /\ \A k \in InternalFields(SrcObj(i).cls) : r.props[k] = Absent
              /\ Len(r.items) = Len(src)
              /\ \A j \in 1..Len(src) :
                   /\ r.items[j].k.t = "#"
                   /\ SrcList[r.items[j].k.n + 1] = src[j].k
  /\ RoundTripped =>
       \A i \in 1..Len(json.recs) :
         SrcObj(i).cls \in WeakClasses =>
           LET src == SrcObj(i).items
               tgt == ObjOf(target, tlist[i]).items
           IN /\ Len(tgt) = Len(src)
              /\ \A j \in 1..Len(src) :
                   tgt[j].k = Image(src[j].k) /\ tgt[j].v = Image(src[j].v)

\* ------------------------------------------------------------ IterableWeakSet
\* The weak set of server/iterable_weakset.js as its test drives it
\* (src/unnamed/part_003): iws is the set's entries, weak references in
\* insertion order; life[o] says whether the program still holds object o
\* ("held"), has dropped its last reference to it ("dropped") or the host
\* collector has reclaimed it ("reaped").  An entry never keeps its
\* referent alive, and an entry whose referent was reclaimed is dead: no
\* observation shows it, and the next observation drops it.
MaxWeakObjs == 3

WeakObjs == 1..Len(life)
Dropped == {o \in WeakObjs : life[o] = "dropped"}
Reaped(l) == {o \in 1..Len(l) : l[o] = "reaped"}

\* The entries as they are stored, dead ones never dropped.
StoredEntries(entries, l) == entries

\* The entries whose referent is alive, in insertion order.
LiveEntries(entries, l) ==
  LET alive(o) == o \notin Reaped(l) IN SelectSeq(entries, alive)

\* Array.from(iws.keys()), which is iws.values()
IwsKeys(entries, l) == LiveEntries(entries, l)
\* iws.size
IwsSize(entries, l) == Len(LiveEntries(entries, l))
\* iws.has(o)
IwsHas(entries, l, o) == InSeq(LiveEntries(entries, l), o)

\* const obj = {x: ...}
Allocate ==
  /\ Len(life) < MaxWeakObjs
  /\ life' = Append(life, "held")
  /\ UNCHANGED iws

\* iws.add(o)
IwsAdd(o) ==
  /\ life[o] = "held"
  /\ ~IwsHas(iws, life, o)
  /\ iws' = Append(LiveEntries(iws, life), o)
  /\ UNCHANGED life

\* iws.delete(o)
IwsDelete(o) ==
  /\ life[o] = "held"
  /\ IwsHas(iws, life, o)
  /\ iws' = LET other(e) == e # o IN SelectSeq(LiveEntries(iws, life), other)
  /\ UNCHANGED life

\* iws.clear()
IwsClear ==
  /\ iws # <<>>
  /\ iws' = <<>>
  /\ UNCHANGED life

\* iws.size, iws.has(..), iteration: an observation, which drops the
\* dead entries it meets.
IwsObserve ==
  /\ iws # LiveEntries(iws, life)
  /\ iws' = LiveEntries(iws, life)
  /\ UNCHANGED life

\* The program lets go of its last reference to o.
DropReference(o) ==
  /\ life[o] = "held"
  /\ life' = [life EXCEPT ![o] = "dropped"]
  /\ UNCHANGED iws

\* gc(): the host collector reclaims unreachable objects; membership of
\* the weak set does not make an object reachable.
Gc(S) ==
  /\ S # {} /\ S \subseteq Dropped
  /\ life' = [o \in WeakObjs |-> IF o \in S THEN "reaped" ELSE life[o]]
  /\ UNCHANGED iws

WeakNext ==
  \/ Allocate /\ UNCHANGED <<serVars, goVars, schedVars, codeVars>>
  \/ \E o \in WeakObjs : IwsAdd(o) /\ UNCHANGED <<serVars, goVars, schedVars, codeVars>>
  \/ \E o \in WeakObjs : IwsDelete(o) /\ UNCHANGED <<serVars, goVars, schedVars, codeVars>>
  \/ IwsClear /\ UNCHANGED <<serVars, goVars, schedVars, codeVars>>
  \/ IwsObserve /\ UNCHANGED <<serVars, goVars, schedVars, codeVars>>
  \/ \E o \in WeakObjs : DropReference(o) /\ UNCHANGED <<serVars, goVars, schedVars, codeVars>>
  \/ \E S \in SUBSET WeakObjs : Gc(S) /\ UNCHANGED <<serVars, goVars, schedVars, codeVars>>

WeakSpec == Init /\ [][WeakNext]_vars

\* The members of s that are not in the set gone, in s's order.
Without(s, gone) == LET stays(e) == e \notin gone IN SelectSeq(s, stays)

\* C21: the size and the keys of an IterableWeakSet show the live members
\* only, in insertion order, and has() agrees with them; when the collector
\* reclaims one member, the size drops by exactly one, has() stays true for
\* every surviving member, and keys() yields the survivors in their
\* original order.
C21_WeakSetLiveness ==
  [][ /\ \A i \in 1..IwsSize(iws, life) : life[IwsKeys(iws, life)[i]] # "reaped"
      /\ (iws' = iws /\ life' # life) =>
           LET gone == Reaped(life') \ Reaped(life)
               lost == {o \in gone : IwsHas(iws, life, o)}
           IN /\ IwsSize(iws', life') = IwsSize(iws, life) - Cardinality(lost)
              /\ Cardinality(lost) = 1 =>
                   IwsSize(iws', life') = IwsSize(iws, life) - 1
              /\ \A o \in WeakObjs \ gone :
                   IwsHas(iws, life, o) => IwsHas(iws', life', o)
              /\ \A o \in gone : ~IwsHas(iws', life', o)
              /\ IwsKeys(iws', life') = Without(IwsKeys(iws, life), gone)
    ]_vars

\* Three members, one of them reclaimed: the size is 2 and the keys are the
\* two survivors in insertion order.
C21_Witness ==
  /\ Len(iws) = 3
  /\ Cardinality(Reaped(life)) = 1
  /\ \E i \in 1..3 : iws[i] \in Reaped(life)
  /\ IwsSize(iws, life) = 2

\* ------------------------------------------------------------ step interpreter
\* The Go step interpreter (src/unnamed/part_001).  prog is the program
\* handed to New; intrp is the Interpreter (its current state, a pointer
\* into the state objects it keeps, and its completion value); scopes are
\* the scope objects; host says what the last call into the package did;
\* obs records what the last step delivered and to whom.

\* The values of package object other than nil.
ObjectUndefined == GoVal("undefined", 0, 1, "", <<>>)
ObjectNull == GoVal("null", 0, 1, "", <<>>)
ObjectBoolean(b) == GoVal("boolean", IF b THEN 1 ELSE 0, 1, "", <<>>)
ObjectString(s) == GoVal("string", 0, 1, s, <<>>)

Abs(n) == IF n < 0 THEN -n ELSE n
Sign(n) == IF n < 0 THEN -1 ELSE IF n = 0 THEN 0 ELSE 1
RECURSIVE Gcd(_, _)
Gcd(a, b) == IF b = 0 THEN a ELSE Gcd(b, a % b)

\* A float64 as the fraction n/d in lowest terms; 1/0 and -1/0 are the
\* infinities and 0/0 is NaN.  (The sign of zero is not kept.)
ObjectNumber(n, d) ==
  IF d = 0 THEN GoVal("number", Sign(n), 0, "", <<>>)
  ELSE LET g == Gcd(Abs(n), Abs(d))
       IN GoVal("number", (Sign(d) * n) \div g, Abs(d) \div g, "", <<>>)
NaN == ObjectNumber(0, 0)
IsNumber(v) == v.t = "number"

NumberAdd(a, b) ==
  IF a.d = 0 /\ b.d = 0 THEN (IF a = b THEN a ELSE NaN)
  ELSE ObjectNumber(a.n * b.d + b.n * a.d, a.d * b.d)
NumberNeg(a) == ObjectNumber(-a.n, a.d)
NumberSub(a, b) == NumberAdd(a, NumberNeg(b))
NumberMul(a, b) == ObjectNumber(a.n * b.n, a.d * b.d)
NumberRecip(b) ==
  IF b.n = 0 THEN (IF b.d = 0 THEN NaN ELSE ObjectNumber(1, 0))
  ELSE ObjectNumber(Sign(b.n) * b.d, Abs(b.n))
NumberDiv(a, b) == NumberMul(a, NumberRecip(b))

\* object.New(nil, object.ObjectProto) and obj.SetProperty(key, v)
ObjectNew == GoVal("object", 0, 1, "", <<>>)
SetProperty(obj, key, v) ==
  LET at == {i \in 1..Len(obj.p) : obj.p[i].key = key}
  IN IF at = {} THEN [obj EXCEPT !.p = Append(@, [key |-> key, value |-> v])]
     ELSE [obj EXCEPT !.p[CHOOSE i \in at : TRUE].value = v]

\* object.IsTruthy
IsTruthy(v) ==
  CASE v.t = "boolean" -> v.n = 1
    [] v.t = "number" -> v.d # 0 /\ v.n # 0
    [] v.t = "string" -> v.s # ""
    [] v.t = "object" -> TRUE
    [] OTHER -> FALSE

\* object.PrimitiveFromRaw: the value a literal's source text denotes.
\* ('then' stands for the text "then" in double quotes.)
PrimitiveFromRaw(raw) ==
  CASE raw = "0" -> ObjectNumber(0, 1)
    [] raw = "1" -> ObjectNumber(1, 1)
    [] raw = "2" -> ObjectNumber(2, 1)
    [] raw = "3" -> ObjectNumber(3, 1)
    [] raw = "4" -> ObjectNumber(4, 1)
    [] raw = "42" -> ObjectNumber(42, 1)
    [] raw = "43" -> ObjectNumber(43, 1)
    [] raw = "44" -> ObjectNumber(44, 1)
    [] raw = "45" -> ObjectNumber(45, 1)
    [] raw = "'bar'" -> ObjectString("bar")
    [] raw = "10" -> ObjectNumber(10, 1)
    [] raw = "12" -> ObjectNumber(12, 1)
    [] raw = "true" -> ObjectBoolean(TRUE)
    [] raw = "false" -> ObjectBoolean(FALSE)
    [] raw = "null" -> ObjectNull
    [] raw = "''" -> ObjectString("")
    [] raw = "'then'" -> ObjectString("then")
    [] raw = "'else'" -> ObjectString("else")

\* The node types of package ast.
Program(body) == Node("Program", "", "", "", body)
BlockStatement(body) == Node("BlockStatement", "", "", "", body)
EmptyStatement == Node("EmptyStatement", "", "", "", <<>>)
ExpressionStatement(e) == Node("ExpressionStatement", "", "", "", <<e>>)
VariableDeclarator(id, init) == Node("VariableDeclarator", id, "", "", <<init>>)
VariableDeclaration(decls) == Node("VariableDeclaration", "", "var", "", decls)
FunctionDeclaration(id, body) == Node("FunctionDeclaration", id, "", "", <<body>>)
FunctionExpression(body) == Node("FunctionExpression", "", "", "", <<body>>)
IfStatement(test, cons, alt) == Node("IfStatement", "", "", "", <<test, cons, alt>>)
WhileStatement(test, body) == Node("WhileStatement", "", "", "", <<test, body>>)
DoWhileStatement(body, test) == Node("DoWhileStatement", "", "", "", <<body, test>>)
ForStatement(init, body) == Node("ForStatement", "", "", "", <<init, body>>)
ForInStatement(left, right, body) == Node("ForInStatement", "", "", "", <<left, right, body>>)
LabeledStatement(label, body) == Node("LabeledStatement", label, "", "", <<body>>)
SwitchCase(cons) == Node("SwitchCase", "", "", "", cons)
SwitchStatement(disc, cases) == Node("SwitchStatement", "", "", "", <<disc>> \o cases)
CatchClause(body) == Node("CatchClause", "", "", "", <<body>>)
TryStatement(block, handler, finalizer) ==
  Node("TryStatement", "", "", "", <<block, handler, finalizer>>)
WithStatement(obj, body) == Node("WithStatement", "", "", "", <<obj, body>>)
Identifier(name) == Node("Identifier", name, "", "", <<>>)
Literal(raw) == Node("Literal", "", "", raw, <<>>)
BinaryExpression(op, l, r) == Node("BinaryExpression", "", op, "", <<l, r>>)
AssignmentExpression(op, l, r) == Node("AssignmentExpression", "", op, "", <<l, r>>)
ConditionalExpression(test, cons, alt) ==
  Node("ConditionalExpression", "", "", "", <<test, cons, alt>>)
Property(key, value) == Node("Property", "", "", "", <<key, value>>)
ObjectExpression(props) == Node("ObjectExpression", "", "", "", props)
MemberExpression(obj, prop) == Node("MemberExpression", "", "", "", <<obj, prop>>)
\* prefix is "prefix" for ++x and "" for x++
UpdateExpression(op, prefix, arg) == Node("UpdateExpression", prefix, op, "", <<arg>>)

Tail2(s) == SubSeq(s, 2, Len(s))

\* ---- scopes
\* A scope's vars maps the declared names to their values; a name that
\* maps to NoVar is not in the map.
VarNames == {"x", "y", "f"}
NoVar == GoVal("novar", 0, 1, "", <<>>)
NoVars == [name \in VarNames |-> NoVar]

\* newScope(parent, interpreter): parent is 0 for the global scope
NewScope(parent) == [vars |-> NoVars, parent |-> parent]

\* The outcome of a call that works on the scopes ss: err is "" or the
\* value the call panicked with, v the value it returned.
Outcome(ss, err, v) == [ss |-> ss, err |-> err, v |-> v]

\* A setVar that checks the name and then stores nothing.
SetVarDropped(ss, this, name, value) ==
  IF ss[this].vars[name] = NoVar
  THEN Outcome(ss, "can't set undeclared variable", Nil)
  ELSE Outcome(ss, "", Nil)

\* scope.setVar: only the scope's own map is consulted
SetVar(ss, this, name, value) ==
  IF ss[this].vars[name] = NoVar
  THEN Outcome(ss, "can't set undeclared variable", Nil)
  ELSE Outcome([ss EXCEPT ![this].vars[name] = value], "", Nil)

\* scope.getVar: only the scope's own map is consulted
GetVar(ss, this, name) ==
  IF ss[this].vars[name] = NoVar
  THEN Outcome(ss, "can't get undeclared variable", Nil)
  ELSE Outcome(ss, "", ss[this].vars[name])

\* The node types whose case in populate is empty.
PopulateIgnores ==
  {"ArrayExpression", "AssignmentExpression", "BinaryExpression",
   "BreakStatement", "CallExpression", "ConditionalExpression",
   "ContinueStatement", "DebuggerStatement", "EmptyStatement",
   "ExpressionStatement", "FunctionExpression", "Identifier", "Literal",
   "LogicalExpression", "MemberExpression", "NewExpression",
   "ObjectExpression", "Property", "ReturnStatement", "SequenceExpression",
   "ThisExpression", "ThrowStatement", "UnaryExpression", "UpdateExpression"}

\* The children populate recurses into, in the order it does.
PopulateChildren(n) ==
  CASE n.type \in {"BlockStatement", "Program", "SwitchCase",
                   "VariableDeclaration"} -> n.kids
    [] n.type \in {"CatchClause", "LabeledStatement"} -> <<n.kids[1]>>
    [] n.type = "DoWhileStatement" -> <<n.kids[1]>>
    [] n.type = "ForInStatement" -> <<n.kids[1], n.kids[3]>>
    [] n.type = "ForStatement" -> <<n.kids[1], n.kids[2]>>
    [] n.type = "IfStatement" -> <<n.kids[2], n.kids[3]>>
    [] n.type = "SwitchStatement" -> Tail2(n.kids)
    [] n.type = "TryStatement" -> n.kids
    [] n.type = "WhileStatement" -> <<n.kids[2]>>
    [] OTHER -> <<>>

\* A pass that also walks the bodies of functions.
RECURSIVE PopulateAllDescending(_, _, _)
PopulateAllDescending(ss, this, nodes) ==
  IF nodes = <<>> THEN Outcome(ss, "", Nil)
  ELSE LET node == Head(nodes) IN
       CASE node.type = "VariableDeclarator" ->
              PopulateAllDescending(
                [ss EXCEPT ![this].vars[node.name] = ObjectUndefined],
                this, Tail(nodes))
         [] node.type = "FunctionDeclaration" ->
              PopulateAllDescending(
                [ss EXCEPT ![this].vars[node.name] = ObjectUndefined],
                this, node.kids \o Tail(nodes))
         [] node.type = "FunctionExpression" ->
              PopulateAllDescending(ss, this, node.kids \o Tail(nodes))
         [] node.type = "ExpressionStatement" ->
              PopulateAllDescending(ss, this, node.kids \o Tail(nodes))
         [] node.type = "WithStatement" -> Outcome(ss, "not implemented", Nil)
         [] node.type \in PopulateIgnores ->
              PopulateAllDescending(ss, this, Tail(nodes))
         [] node.type = "nil" -> Outcome(ss, "Unrecognized ast.Node type", Nil)
         [] OTHER -> PopulateAllDescending(ss, this,
                                           PopulateChildren(node) \o Tail(nodes))

\* scope.populate(node), as a walk over the nodes still to visit: a node's
\* children are visited before the nodes that follow it.  The result is
\* the scopes after the pass and, when the pass panicked, what it panicked
\* with (the map then holds what was declared before the panic).
RECURSIVE PopulateAll(_, _, _)
PopulateAll(ss, this, nodes) ==
  IF nodes = <<>> THEN Outcome(ss, "", Nil)
  ELSE LET node == Head(nodes) IN
       CASE node.type \in {"VariableDeclarator", "FunctionDeclaration"} ->
              PopulateAll([ss EXCEPT ![this].vars[node.name] = ObjectUndefined],
                          this, Tail(nodes))
         [] node.type = "WithStatement" -> Outcome(ss, "not implemented", Nil)
         [] node.type \in PopulateIgnores -> PopulateAll(ss, this, Tail(nodes))
         [] node.type = "nil" -> Outcome(ss, "Unrecognized ast.Node type", Nil)
         [] OTHER -> PopulateAll(ss, this, PopulateChildren(node) \o Tail(nodes))

Populate(ss, this, node) == PopulateAll(ss, this, <<node>>)

\* ---- states
\* A state object: parent is the state to return to (0 is nil), scope its
\* scope, node the AST node it evaluates; the other fields are those of
\* the state<NodeType> structs, each used by the kinds that have it.
\* calls, lefts and rights are history: the acceptValue calls the state
\* has received since it last created a child state of its own, and how
\* often it has created a state for its left and its right operand.
MaxStates == 8
MaxCalls == 2

StateKinds ==
  {"AssignmentExpression", "BinaryExpression", "BlockStatement",
   "ConditionalExpression", "EmptyStatement", "ExpressionStatement",
   "FunctionDeclaration", "Identifier", "IfStatement", "Literal",
   "ObjectExpression", "Program", "VariableDeclaration", "VariableDeclarator"}

NoState ==
  [kind |-> "free", parent |-> 0, scope |-> 0, node |-> NoNode,
   n |-> 0, done |-> FALSE, name |-> "", ready |-> FALSE,
   haveLeft |-> FALSE, haveRight |-> FALSE, left |-> Nil, right |-> Nil,
   haveResult |-> FALSE, result |-> FALSE, obj |-> Nil, value |-> Nil,
   calls |-> 0, lefts |-> 0, rights |-> 0]

NoStates == [i \in 1..MaxStates |-> NoState]
FreeIds(st) == {i \in 1..Len(st) : st[i].kind = "free"}
Bump(n) == IF n < MaxCalls THEN n + 1 ELSE n

\* stateCommon{parent, scope}
StateCommon(kind, parent, scope, node) ==
  [NoState EXCEPT !.kind = kind, !.parent = parent, !.scope = scope,
                  !.node = node]

\* What newState hands back: the state objects, the new state's id, and
\* what the call panicked with, if it did.
Made(st, id, s) == [st |-> [st EXCEPT ![id] = s], id |-> id, err |-> ""]
NotMade(st, err) == [st |-> st, id |-> 0, err |-> err]

\* A newState that makes the new state its own parent.
NewStateSelfParent(st, parent, scope, node) ==
  IF node.type \in StateKinds
  THEN Made(st, SetMin(FreeIds(st)),
            StateCommon(IF node.type = "Program" THEN "BlockStatement"
                        ELSE node.type,
                        SetMin(FreeIds(st)), scope, node))
  ELSE NotMade(st, "State for AST node type not implemented")

\* newState(parent, scope, node), the init of the state's type included
NewState(st, parent, scope, node) ==
  LET id == SetMin(FreeIds(st))
      sc == StateCommon(node.type, parent, scope, node)
  IN CASE node.type = "AssignmentExpression" ->
            (CASE node.kids[1].type = "Identifier" ->
                    Made(st, id, [sc EXCEPT !.name = node.kids[1].name,
                                            !.ready = TRUE])
               [] node.kids[1].type = "MemberExpression" ->
                    NotMade(st, "not implemented")
               [] OTHER -> NotMade(st, "is not an lvalue"))
       [] node.type = "Identifier" -> Made(st, id, [sc EXCEPT !.name = node.name])
       [] node.type = "Literal" ->
            Made(st, id, [sc EXCEPT !.value = PrimitiveFromRaw(node.raw)])
       [] node.type = "Program" -> Made(st, id, [sc EXCEPT !.kind = "BlockStatement"])
       [] node.type = "VariableDeclaration" ->
            IF node.op # "var" THEN NotMade(st, "Unknown VariableDeclaration kind")
            ELSE Made(st, id, sc)
       [] node.type = "VariableDeclarator" ->
            Made(st, id, [sc EXCEPT !.name = node.name])
       [] node.type \in StateKinds -> Made(st, id, sc)
       [] OTHER -> NotMade(st, "State for AST node type not implemented")

\* The outcome of a step or of an acceptValue call: the state objects, the
\* scopes and the interpreter's value after it, the state the step
\* returned (0 is nil), whether that is the stepping state's parent, what
\* the call panicked with, if it did, and the value the step passed to
\* acceptValue (Nil if it passed none).
Result(st, ss, value, next, up, err) ==
  [st |-> st, ss |-> ss, value |-> value, next |-> next, up |-> up, err |-> err,
   sent |-> Nil]

\* Negative zero, written as the fraction 0/-1; the arithmetic above
\* never yields it.
NegativeZero == GoVal("number", 0, -1, "", <<>>)

\* The decimal digits of a natural number.
Digits == <<"0", "1", "2", "3", "4", "5", "6", "7", "8", "9">>
RECURSIVE NatToString(_)
NatToString(n) ==
  IF n < 10 THEN Digits[n + 1]
  ELSE NatToString(n \div 10) \o Digits[(n % 10) + 1]

\* v.ToString(), as TestToString tabulates it; of the numbers, the
\* zeros, the integers, the infinities and NaN.
ValueToString(v) ==
  CASE v.t = "string" -> v.s
    [] v.t = "boolean" -> (IF v.n = 1 THEN "true" ELSE "false")
    [] v.t = "null" -> "null"
    [] v.t = "undefined" -> "undefined"
    [] v = NegativeZero -> "-0"
    [] v.t = "number" /\ v.d = 0 ->
         (IF v.n = 0 THEN "NaN" ELSE IF v.n > 0 THEN "Infinity" ELSE "-Infinity")
    [] v.t = "number" /\ v.d = 1 ->
         (IF v.n < 0 THEN "-" \o NatToString(-v.n) ELSE NatToString(v.n))

\* The key a property is set under: the text of an identifier key, the
\* string of a literal one.
PropertyKey(k) ==
  CASE k.type = "Literal" -> ValueToString(PrimitiveFromRaw(k.raw))
    [] k.type = "Identifier" -> k.name
    [] OTHER -> ""

\* this.acceptValue(v), for the state this
AcceptValue(st, ss, value, this, v) ==
  LET s == [st[this] EXCEPT !.calls = Bump(@)]
      ok(s2) == Result([st EXCEPT ![this] = s2], ss, value, 0, FALSE, "")
  IN CASE s.kind = "AssignmentExpression" -> ok([s EXCEPT !.right = v])
       [] s.kind = "BinaryExpression" ->
            IF ~s.haveLeft THEN ok([s EXCEPT !.left = v, !.haveLeft = TRUE])
            ELSE IF ~s.haveRight THEN ok([s EXCEPT !.right = v, !.haveRight = TRUE])
            ELSE Result(st, ss, value, 0, FALSE, "too may values")
       [] s.kind \in {"ConditionalExpression", "IfStatement"} ->
            ok([s EXCEPT !.result = IsTruthy(v), !.haveResult = TRUE])
       [] s.kind = "ExpressionStatement" ->
            Result([st EXCEPT ![this] = s], ss, v, 0, FALSE, "")
       [] s.kind = "ObjectExpression" ->
            ok([s EXCEPT !.obj = SetProperty(@, PropertyKey(s.node.kids[s.n + 1].kids[1]), v),
                         !.n = @ + 1])
       [] s.kind = "VariableDeclarator" -> ok([s EXCEPT !.value = v])
       [] OTHER -> Result(st, ss, value, 0, FALSE, "interface conversion: not a valueAcceptor")

\* this.parent.(valueAcceptor).acceptValue(v); return this.parent
Delivered(r, parent, v) ==
  [r EXCEPT !.next = parent, !.up = (r.err = ""), !.sent = v]
Deliver(st, ss, value, this, v) ==
  IF st[this].parent = 0
  THEN Result(st, ss, value, 0, FALSE, "interface conversion: interface is nil")
  ELSE Delivered(AcceptValue(st, ss, value, st[this].parent, v),
                 st[this].parent, v)

\* return newState(parent, this.scope, node), for the stepping state this
Entered(m, ss, value) == Result(m.st, ss, value, m.id, FALSE, m.err)
Descend(st, ss, value, this, parent, node) ==
  Entered(NewState(IF parent = this THEN [st EXCEPT ![this].calls = 0] ELSE st,
                   parent, st[this].scope, node),
          ss, value)

\* return this.parent
Return(st, ss, value, this) == Result(st, ss, value, st[this].parent, TRUE, "")

\* stateVariableDeclaration.step's loop: a stateVariableDeclarator for
\* every declarator with an initialiser, last one first, so that the
\* first is the state returned.
RECURSIVE ChainDeclarators(_, _, _, _, _)
ChainNext(m, scope, decls, i) ==
  IF m.err # "" THEN m ELSE ChainDeclarators(m.st, scope, decls, i, m.id)
ChainDeclarators(st, scope, decls, i, p) ==
  IF i = 0 THEN [st |-> st, id |-> p, err |-> ""]
  ELSE IF decls[i].kids[1] # NoNode
       THEN ChainNext(NewState(st, p, scope, decls[i]), scope, decls, i - 1)
       ELSE ChainDeclarators(st, scope, decls, i - 1, p)

\* scope.setVar(name, value); return this.parent
Assign(w, st, value, this) ==
  IF w.err # "" THEN Result(st, w.ss, value, 0, FALSE, w.err)
  ELSE Result(st, w.ss, value, st[this].parent, TRUE, "")

\* s := newState(this, this.scope, this.body[this.n]); this.n++; return s
Advance(r, this) == IF r.err # "" THEN r ELSE [r EXCEPT !.st[this].n = @ + 1]

\* if this.obj == nil { this.obj = object.New(nil, object.ObjectProto) }
WithObject(st, this) ==
  IF st[this].obj = Nil THEN [st EXCEPT ![this].obj = ObjectNew] ELSE st

\* return p, after stateVariableDeclaration.step's loop
Chained(m, ss, value, parent) ==
  Result(m.st, ss, value, m.id, m.id = parent, m.err)

BinaryOperate(op, left, right) ==
  CASE op = "+" -> NumberAdd(left, right)
    [] op = "-" -> NumberSub(left, right)
    [] op = "*" -> NumberMul(left, right)
    [] op = "/" -> NumberDiv(left, right)

\* this.step(), for the state this
StepState(st, ss, value, this) ==
  LET s == st[this] IN
  CASE s.kind = "AssignmentExpression" ->
         IF ~s.ready THEN Result(st, ss, value, 0, FALSE, "not implemented")
         ELSE IF s.right = Nil
         THEN Descend([st EXCEPT ![this].rights = Bump(@)], ss, value, this, this,
                      s.node.kids[2])
         ELSE Assign(SetVar(ss, s.scope, s.name, s.right), st, value, this)
    [] s.kind = "BinaryExpression" ->
         IF ~s.haveLeft
         THEN Descend([st EXCEPT ![this].lefts = Bump(@)], ss, value, this, this,
                      s.node.kids[1])
         ELSE IF ~s.haveRight
         THEN Descend([st EXCEPT ![this].rights = Bump(@)], ss, value, this, this,
                      s.node.kids[2])
         ELSE IF s.node.op \notin {"+", "-", "*", "/"}
         THEN Result(st, ss, value, 0, FALSE, "not implemented")
         ELSE IF ~IsNumber(s.left) \/ ~IsNumber(s.right)
         THEN Result(st, ss, value, 0, FALSE, "interface conversion: not object.Number")
         ELSE Deliver(st, ss, value, this, BinaryOperate(s.node.op, s.left, s.right))
    [] s.kind = "BlockStatement" ->
         IF s.n < Len(s.node.kids)
         THEN Advance(Descend(st, ss, value, this, this, s.node.kids[s.n + 1]), this)
         ELSE Return(st, ss, value, this)
    [] s.kind \in {"ConditionalExpression", "IfStatement"} ->
         IF ~s.haveResult
         THEN Descend([st EXCEPT ![this].lefts = Bump(@)], ss, value, this, this,
                      s.node.kids[1])
         ELSE IF s.result THEN Descend(st, ss, value, this, s.parent, s.node.kids[2])
         ELSE Descend(st, ss, value, this, s.parent, s.node.kids[3])
    [] s.kind \in {"EmptyStatement", "FunctionDeclaration"} ->
         Return(st, ss, value, this)
    [] s.kind = "ExpressionStatement" ->
         IF ~s.done
         THEN Descend([st EXCEPT ![this].done = TRUE], ss, value, this, this,
                      s.node.kids[1])
         ELSE Return(st, ss, value, this)
    [] s.kind = "Identifier" ->
         IF GetVar(ss, s.scope, s.name).err # ""
         THEN Result(st, ss, value, 0, FALSE, GetVar(ss, s.scope, s.name).err)
         ELSE Deliver(st, ss, value, this, GetVar(ss, s.scope, s.name).v)
    [] s.kind = "Literal" -> Deliver(st, ss, value, this, s.value)
    [] s.kind = "ObjectExpression" ->
         IF s.n < Len(s.node.kids)
         THEN Descend([WithObject(st, this) EXCEPT ![this].lefts = Bump(@)],
                      ss, value, this, this, s.node.kids[s.n + 1].kids[2])
         ELSE Deliver(WithObject(st, this), ss, value, this,
                      WithObject(st, this)[this].obj)
    [] s.kind = "VariableDeclaration" ->
         Chained(ChainDeclarators(st, s.scope, s.node.kids, Len(s.node.kids),
                                  s.parent),
                 ss, value, s.parent)
    [] s.kind = "VariableDeclarator" ->
         IF s.node.kids[1] = NoNode
         THEN Result(st, ss, value, 0, FALSE, "Why are we bothering")
         ELSE IF s.value = Nil
         THEN Descend(st, ss, value, this, this, s.node.kids[1])
         ELSE Assign(SetVar(ss, s.scope, s.name, s.value), st, value, this)

\* ---- the programs
\* x is declared by every program's first statement; y only where the
\* statement under test declares it.
Atoms == {Literal("0"), Literal("2"), Identifier("x"), Identifier("y")}
Operands ==
  Atoms \cup
  {AssignmentExpression("=", Identifier("x"), Literal("2")),
   BinaryExpression("-", Literal("2"), Identifier("x")),
   ConditionalExpression(Identifier("x"), Literal("0"), Literal("2")),
   ObjectExpression(<<>>)}
Operators == {"+", "-", "*", "/"}
Expressions ==
  Operands
  \cup {BinaryExpression(op, l, r) : op \in Operators, l \in Operands, r \in Operands}
  \cup {ConditionalExpression(t, c, a) : t \in Operands, c \in Atoms, a \in Atoms}
  \cup {AssignmentExpression(op, Identifier(n), r) :
          op \in {"=", "+="}, n \in {"x", "y"}, r \in Operands}
  \cup {ObjectExpression(<<Property(Identifier("a"), v)>>) : v \in Operands}
  \cup {ObjectExpression(<<Property(Identifier("a"), Literal("0")),
                           Property(k, Literal("2"))>>) :
          k \in {Identifier("a"), Identifier("b"), Literal("'then'")}}
Then == BlockStatement(<<ExpressionStatement(Literal("'then'"))>>)
Else == BlockStatement(<<ExpressionStatement(Literal("'else'"))>>)
Statements ==
  {ExpressionStatement(e) : e \in Expressions}
  \cup {VariableDeclaration(<<VariableDeclarator("y", e)>>) : e \in Expressions}
  \cup {IfStatement(t, Then, alt) : t \in Operands, alt \in {Else, NoNode}}
  \cup {EmptyStatement, FunctionDeclaration("f", BlockStatement(<<>>)),
        VariableDeclaration(<<VariableDeclarator("y", Literal("0")),
                              VariableDeclarator("f", NoNode),
                              VariableDeclarator("x", Identifier("y"))>>)}
Prologues ==
  {VariableDeclaration(<<VariableDeclarator("x", init)>>) :
     init \in {Literal("2"), NoNode}}

\* (3 + 12 / 4) * (10 - 3), the test's simpleFourFunction
SimpleFourFunction ==
  Program(<<ExpressionStatement(
    BinaryExpression("*",
      BinaryExpression("+", Literal("3"),
                       BinaryExpression("/", Literal("12"), Literal("4"))),
      BinaryExpression("-", Literal("10"), Literal("3"))))>>)

\* Statements that declare y somewhere inside them, and f in a function.
DeclareY == VariableDeclaration(<<VariableDeclarator("y", Literal("2"))>>)
Body == BlockStatement(<<DeclareY>>)
Nested ==
  {DeclareY, Body, FunctionDeclaration("f", Body),
   ExpressionStatement(FunctionExpression(Body)),
   IfStatement(Literal("0"), Body, BlockStatement(<<>>)),
   IfStatement(Literal("0"), BlockStatement(<<>>), Body),
   IfStatement(Literal("0"), Body, NoNode),
   WhileStatement(Literal("0"), Body),
   DoWhileStatement(Body, Literal("0")),
   ForStatement(DeclareY, EmptyStatement),
   ForStatement(Literal("0"), Body),
   ForStatement(NoNode, Body),
   ForInStatement(DeclareY, Identifier("x"), EmptyStatement),
   ForInStatement(Identifier("x"), Identifier("x"), Body),
   LabeledStatement("l", Body),
   SwitchStatement(Identifier("x"), <<SwitchCase(<<>>), SwitchCase(<<DeclareY>>)>>),
   TryStatement(Body, CatchClause(BlockStatement(<<>>)), BlockStatement(<<>>)),
   TryStatement(BlockStatement(<<>>), CatchClause(Body), BlockStatement(<<>>)),
   TryStatement(BlockStatement(<<>>), CatchClause(BlockStatement(<<>>)), Body),
   TryStatement(Body, CatchClause(BlockStatement(<<>>)), NoNode),
   TryStatement(Body, NoNode, BlockStatement(<<>>)),
   WithStatement(Identifier("x"), Body)}

\* The other programs of TestInterpreterSimple and
\* TestInterpreterObjectExpression.
\* var x = 43; x
VariableDecl ==
  Program(<<VariableDeclaration(<<VariableDeclarator("x", Literal("43"))>>),
            ExpressionStatement(Identifier("x"))>>)
\* var x = 0; x = 44; x
SimpleAssignment ==
  Program(<<VariableDeclaration(<<VariableDeclarator("x", Literal("0"))>>),
            ExpressionStatement(
              AssignmentExpression("=", Identifier("x"), Literal("44"))),
            ExpressionStatement(Identifier("x"))>>)
\* var o = {}; o.foo = 45; o.foo  (o is spelled y here)
PropertyAssignment ==
  Program(<<VariableDeclaration(<<VariableDeclarator("y", ObjectExpression(<<>>))>>),
            ExpressionStatement(
              AssignmentExpression("=",
                MemberExpression(Identifier("y"), Identifier("foo")),
                Literal("45"))),
            ExpressionStatement(
              MemberExpression(Identifier("y"), Identifier("foo")))>>)
\* var x = 45; x++; x++   and   var x = 45; ++x; ++x
Increment(prefix) ==
  Program(<<VariableDeclaration(<<VariableDeclarator("x", Literal("45"))>>),
            ExpressionStatement(UpdateExpression("++", prefix, Identifier("x"))),
            ExpressionStatement(UpdateExpression("++", prefix, Identifier("x")))>>)
Postincrement == Increment("")
Preincrement == Increment("prefix")
\* true ? "then" : "else"   and   false ? "then" : "else"
Cond(test) ==
  Program(<<ExpressionStatement(
    ConditionalExpression(Literal(test), Literal("'then'"), Literal("'else'")))>>)
\* if (true) {"then";} else {"else";}   and the same with false
If(test) == Program(<<IfStatement(Literal(test), Then, Else)>>)
\* ({foo: "bar", answer: 42})
ObjectExpressionTest ==
  Program(<<ExpressionStatement(
    ObjectExpression(<<Property(Identifier("foo"), Literal("'bar'")),
                       Property(Identifier("answer"), Literal("42"))>>))>>)
TestPrograms ==
  {SimpleFourFunction, VariableDecl, SimpleAssignment, PropertyAssignment,
   Postincrement, Preincrement, Cond("true"), Cond("false"),
   If("true"), If("false"), ObjectExpressionTest}

Programs ==
  {Program(<<pre, s, ExpressionStatement(Identifier("x"))>>) :
     pre \in Prologues, s \in Statements}
  \cup {Program(<<s, ExpressionStatement(Identifier("y"))>>) : s \in Nested}
  \cup TestPrograms \cup {Program(<<>>)}

\* ---- the interpreter's operations
\* The states on the parent chain of id, id included; a chain that has
\* not ended after MaxStates hops is cut there.
RECURSIVE Ancestors(_, _, _)
Ancestors(st, id, fuel) ==
  IF id = 0 \/ fuel = 0 THEN {}
  ELSE {id} \cup Ancestors(st, st[id].parent, fuel - 1)

\* The state objects once the collector has reclaimed those that the
\* interpreter's state no longer leads to.
Collect(st, cur) ==
  [i \in 1..Len(st) |-> IF i \in Ancestors(st, cur, MaxStates) THEN st[i]
                        ELSE NoState]

\* i := New(astJSON)
New(ast) ==
  /\ host = NoCall
  /\ prog' = ast
  /\ \E p \in {Populate(<<NewScope(0)>>, 1, ast)},
        m \in {NewState(NoStates, 0, 1, ast)} :
       /\ scopes' = p.ss
       /\ IF p.err # ""
          THEN /\ host' = Call("New", "", p.err)
               /\ UNCHANGED <<intrp, states>>
          ELSE /\ host' = Call("New", "", m.err)
               /\ states' = m.st
               /\ intrp' = [state |-> m.id, value |-> Nil]
  /\ obs' = NoObs
  /\ UNCHANGED <<serVars, weakVars, schedVars,
               codeVars>>

\* What one call of Step does to the interpreter c: its state and value,
\* the state objects st and the scopes ss; err is what the step panicked
\* with, obs what it did.  r is the outcome of the current state's step.
Stepped(c, r) ==
  [state |-> IF r.err # "" THEN c.state ELSE r.next,
   value |-> r.value,
   st |-> IF r.err # "" THEN r.st ELSE Collect(r.st, r.next),
   ss |-> r.ss,
   err |-> r.err,
   obs |-> IF r.err # "" THEN NoObs
           ELSE Seen(c.st[c.state].kind, c.st[c.state].node, r.up, r.sent,
                     IF r.next = 0 THEN "" ELSE r.st[r.next].kind,
                     IF r.next = 0 THEN 0 ELSE r.st[r.next].calls,
                     c.st[c.state].lefts, c.st[c.state].rights,
                     c.st[c.state].left, c.st[c.state].right)]
StepOnce(c) == Stepped(c, StepState(c.st, c.ss, c.value, c.state))

Running == host.call # "" /\ host.err = ""
Current == [state |-> intrp.state, value |-> intrp.value, st |-> states,
            ss |-> scopes, err |-> "", obs |-> obs]

\* A Step that reports a step even when there is none left to take.
StepAlwaysTrue ==
  /\ Running
  /\ IF intrp.state = 0
     THEN /\ host' = Call("Step", "true", "")
          /\ obs' = NoObs
          /\ UNCHANGED <<intrp, states, scopes>>
     ELSE \E c \in {StepOnce(Current)} :
             /\ intrp' = [state |-> c.state, value |-> c.value]
             /\ states' = c.st
             /\ scopes' = c.ss
             /\ obs' = c.obs
             /\ host' = IF c.err # "" THEN Call("Step", "", c.err)
                        ELSE Call("Step", "true", "")
  /\ UNCHANGED <<prog, serVars, weakVars, schedVars,
               codeVars>>

\* i.Step()
Step ==
  /\ Running
  /\ IF intrp.state = 0
     THEN /\ host' = Call("Step", "false", "")
          /\ obs' = NoObs
          /\ UNCHANGED <<intrp, states, scopes>>
     ELSE \E c \in {StepOnce(Current)} :
             /\ intrp' = [state |-> c.state, value |-> c.value]
             /\ states' = c.st
             /\ scopes' = c.ss
             /\ obs' = c.obs
             /\ host' = IF c.err # "" THEN Call("Step", "", c.err)
                        ELSE Call("Step", "true", "")
  /\ UNCHANGED <<prog, serVars, weakVars, schedVars,
               codeVars>>

\* for this.Step() {}: the interpreter after the loop, or, if a step
\* panicked, at the panic; fuel is the number of steps the loop may still
\* take.
MaxSteps == 40
RECURSIVE RunLoop(_, _)
RunLoop(c, fuel) ==
  IF c.state = 0 \/ c.err # "" \/ fuel = 0 THEN c
  ELSE RunLoop(StepOnce(c), fuel - 1)

\* i.Run(), for a program whose loop ends
Run ==
  /\ Running
  /\ \E c \in {RunLoop(Current, MaxSteps)} :
       /\ c.state = 0 \/ c.err # ""
       /\ intrp' = [state |-> c.state, value |-> c.value]
       /\ states' = c.st
       /\ scopes' = c.ss
       /\ obs' = NoObs
       /\ host' = Call("Run", "", c.err)
  /\ UNCHANGED <<prog, serVars, weakVars, schedVars,
               codeVars>>

StepNext ==
  \/ \E ast \in Programs : New(ast)
  \/ Step
  \/ Run

StepSpec == Init /\ [][StepNext]_vars

\* ---- properties of the step interpreter
Constructed == host.call # "" /\ ~(host.call = "New" /\ host.err # "")
Terminated == Constructed /\ host.err = "" /\ intrp.state = 0
ExpressionKinds ==
  {"Literal", "Identifier", "BinaryExpression", "ConditionalExpression",
   "ObjectExpression", "AssignmentExpression"}

\* C23: when a state that evaluates an expression (Literal, Identifier,
\* BinaryExpression, ConditionalExpression, ObjectExpression,
\* AssignmentExpression) returns to the state that consumes its result,
\* that consumer has received exactly one acceptValue call since the
\* expression's state was created.
C23_ValueAcceptor ==
  (obs.up /\ obs.kind \in ExpressionKinds) => obs.calls = 1 /\ obs.sent # Nil


Finite(v) == v.t = "number" /\ v.d > 0
BinaryStates == {i \in 1..Len(states) : states[i].kind = "BinaryExpression"}

\* v is l op r, for fractions l, r and v.
IsResult(op, l, r, v) ==
  CASE op = "+" -> Finite(v) /\ v.n * l.d * r.d = (l.n * r.d + r.n * l.d) * v.d
    [] op = "-" -> Finite(v) /\ v.n * l.d * r.d = (l.n * r.d - r.n * l.d) * v.d
    [] op = "*" -> Finite(v) /\ v.n * l.d * r.d = l.n * r.n * v.d
    [] op = "/" -> IF r.n = 0 THEN v.t = "number" /\ v.d = 0
                   ELSE Finite(v) /\ v.n * l.d * r.n = l.n * r.d * v.d

\* C24: a BinaryExpression starts its right operand only once it has the
\* value of its left operand, starts each operand exactly once, and then
\* delivers left op right to its parent (for +, -, *, /);
\* (3 + 12 / 4) * (10 - 3) has completion value 42.
C24_BinaryExpression ==
  /\ \A i \in BinaryStates :
       /\ states[i].lefts <= 1 /\ states[i].rights <= 1
       /\ states[i].rights > 0 => states[i].haveLeft
       /\ states[i].haveRight => states[i].haveLeft
  /\ (obs.kind = "BinaryExpression" /\ obs.up) =>
       /\ obs.lefts = 1 /\ obs.rights = 1
       /\ (Finite(obs.left) /\ Finite(obs.right)) =>
            IsResult(obs.node.op, obs.left, obs.right, obs.sent)
  /\ host.err # "interface conversion: not object.Number"
  /\ (prog = SimpleFourFunction /\ Terminated) =>
       intrp.value = GoVal("number", 42, 1, "", <<>>)

\* The names a VariableDeclarator or FunctionDeclaration declares anywhere
\* in the statements of node, function bodies excepted.
RECURSIVE DeclaredNames(_)
DeclaredNames(node) ==
  CASE node.type \in {"VariableDeclarator", "FunctionDeclaration"} -> {node.name}
    [] node.type = "FunctionExpression" -> {}
    [] OTHER -> UNION {DeclaredNames(node.kids[i]) : i \in 1..Len(node.kids)}

\* C25: once New has hoisted a program's declarations, every name that a
\* VariableDeclarator or FunctionDeclaration declares anywhere in its
\* statements is in the scope with the value undefined, and New has not
\* panicked.
C25_Hoisting ==
  host.call = "New" =>
    /\ host.err = ""
    /\ \A name \in DeclaredNames(prog) : scopes[1].vars[name] = ObjectUndefined

\* C26: a second run of populate over the program leaves the scope the
\* first run left; the pass gives every name it declares the value
\* undefined, whatever its initialiser, leaves the completion value alone
\* and creates no state; and it declares no name that only the body of a
\* FunctionDeclaration or FunctionExpression declares.
C26_HoistingPass ==
  /\ Constructed => Populate(Populate(scopes, 1, prog).ss, 1, prog)
                      = Populate(scopes, 1, prog)
  /\ (host.call = "New" /\ host.err = "") =>
       /\ \A name \in VarNames :
            scopes[1].vars[name] =
              IF name \in DeclaredNames(prog) THEN ObjectUndefined ELSE NoVar
       /\ intrp.value = Nil
       /\ \A i \in 1..Len(states) : states[i].kind # "free" => i = intrp.state

\* A program whose only declaration of y is inside a function body, and
\* whose x has an initialiser, has been hoisted.
C26_Witness ==
  /\ host.call = "New" /\ host.err = ""
  /\ \E i \in 1..Len(prog.kids) :
       prog.kids[i].type = "FunctionDeclaration" /\ prog.kids[i].kids[1] = Body
  /\ scopes[1].vars["f"] = ObjectUndefined
  /\ scopes[1].vars["y"] = NoVar

\* C29: Step returns true exactly when the interpreter had a state to
\* step, and that state has then stepped; it returns false exactly when
\* the state was nil, and then leaves the state, the scope and the
\* completion value as they were, so that every later Step returns false
\* too; Run returns only once the state is nil.
C29_StepAndRun ==
  [][ /\ (host'.call = "Step" /\ host'.err = "") =>
           /\ host'.ret = "true" <=> intrp.state # 0
           /\ host'.ret = "false" <=> intrp.state = 0
           /\ host'.ret = "true" => obs'.kind = states[intrp.state].kind
           /\ host'.ret = "false" => UNCHANGED <<intrp, states, scopes>>
      /\ (host.call = "Step" /\ host.ret = "false" /\ host'.call = "Step") =>
           host'.ret = "false"
      /\ (host'.call = "Run" /\ host'.err = "") => intrp'.state = 0
    ]_vars

\* Step has returned false after a program that left a completion value.
C29_Witness ==
  host.call = "Step" /\ host.ret = "false" /\ intrp.state = 0 /\ intrp.value # Nil

\* The state id leads to the root, whose parent is nil, in at most hops
\* steps along parent.
RECURSIVE LeadsToRoot(_, _, _)
LeadsToRoot(st, id, hops) ==
  \/ id = 0
  \/ /\ hops > 0
     /\ id \in 1..Len(st)
     /\ st[id].kind \in StateKinds
     /\ LeadsToRoot(st, st[id].parent, hops - 1)

\* C30: between two calls of Step the interpreter's state is nil or a state
\* whose parent chain ends at the root after finitely many hops; and a
\* block that has started a statement has also counted it.
C30_NoMidStepCheckpoint ==
  (Constructed /\ host.err = "") =>
    /\ LeadsToRoot(states, intrp.state, MaxStates)
    /\ \A i \in Ancestors(states, intrp.state, MaxStates) :
         (states[i].parent # 0 /\ states[states[i].parent].kind = "BlockStatement")
           => states[states[i].parent].n >= 1

\* The interpreter is four states deep in a program.
C30_Witness ==
  /\ Constructed /\ host.err = ""
  /\ Cardinality(Ancestors(states, intrp.state, MaxStates)) >= 4

\* ---- the scope chain on its own
\* The scope functions called directly, as code of the package can call
\* them: newScope for a scope inside an existing one, populate with a
\* declaration, setVar and getVar.
MaxScopes == 3
ScopeNames == {"x", "y"}
ScopeValues == {GoVal("number", 2, 1, "", <<>>)}

\* s := newScope(parent, i)
ScopeNew(parent) ==
  /\ Len(scopes) < MaxScopes
  /\ scopes' = Append(scopes, NewScope(parent))
  /\ host' = CallOn("newScope", parent, "", Nil, "", Nil, "")
  /\ UNCHANGED <<prog, intrp, states, obs, serVars, weakVars, schedVars,
               codeVars>>

\* s.populate(node), for the declaration var name;
ScopePopulate(this, name) ==
  /\ \E p \in {Populate(scopes, this,
                        VariableDeclaration(<<VariableDeclarator(name, NoNode)>>))} :
       /\ scopes' = p.ss
       /\ host' = CallOn("populate", this, name, Nil, "", Nil, p.err)
  /\ UNCHANGED <<prog, intrp, states, obs, serVars, weakVars, schedVars,
               codeVars>>

\* s.setVar(name, value)
ScopeSetVar(this, name, value) ==
  /\ \E w \in {SetVar(scopes, this, name, value)} :
       /\ scopes' = w.ss
       /\ host' = CallOn("setVar", this, name, value, "", Nil, w.err)
  /\ UNCHANGED <<prog, intrp, states, obs, serVars, weakVars, schedVars,
               codeVars>>

\* s.getVar(name)
ScopeGetVar(this, name) ==
  /\ \E g \in {GetVar(scopes, this, name)} :
       /\ scopes' = g.ss
       /\ host' = CallOn("getVar", this, name, Nil, "", g.v, g.err)
  /\ UNCHANGED <<prog, intrp, states, obs, serVars, weakVars, schedVars,
               codeVars>>

ScopeNext ==
  \/ \E parent \in (IF scopes = <<>> THEN {0} ELSE 1..Len(scopes)) : ScopeNew(parent)
  \/ \E this \in 1..Len(scopes), name \in ScopeNames : ScopePopulate(this, name)
  \/ \E this \in 1..Len(scopes), name \in ScopeNames, value \in ScopeValues :
       ScopeSetVar(this, name, value)
  \/ \E this \in 1..Len(scopes), name \in ScopeNames : ScopeGetVar(this, name)

ScopeSpec == Init /\ [][ScopeNext]_vars

\* The nearest scope, from scope this outward, that declares name; 0 if
\* none does.
RECURSIVE Resolve(_, _, _)
Resolve(ss, this, name) ==
  IF this = 0 THEN 0
  ELSE IF ss[this].vars[name] # NoVar THEN this
  ELSE Resolve(ss, ss[this].parent, name)

\* C27: getVar and setVar called on a scope that does not itself declare
\* the name, inside a scope that does, work on the nearest enclosing scope
\* that declares it: getVar returns that scope's value, setVar writes that
\* scope's slot and no other.
C27_ScopeWalk ==
  [][ \A e \in 1..Len(scopes) :
        ( /\ host'.call \in {"getVar", "setVar"}
          /\ Len(scopes') = Len(scopes)
          /\ scopes[host'.this].vars[host'.name] = NoVar
          /\ e = Resolve(scopes, host'.this, host'.name) ) =>
        /\ host'.err = ""
        /\ host'.call = "getVar" =>
             host'.val = scopes[e].vars[host'.name] /\ scopes' = scopes
        /\ host'.call = "setVar" =>
             scopes' = [scopes EXCEPT ![e].vars[host'.name] = host'.arg]
    ]_vars

\* C28: a read of or an assignment to a name that no scope declares does
\* not end the step in a host panic.
C28_UnresolvedName ==
  host.err \notin {"can't get undeclared variable",
                   "can't set undeclared variable"}

\* ---- assignment, update, member, conditional and object expressions
Number(n) == GoVal("number", n, 1, "", <<>>)

\* C31: when the state of an AssignmentExpression x = e returns to its
\* parent, it has started e exactly once and x holds the value e
\* delivered; the completion value changes only when a step delivers a
\* value to an ExpressionStatement, and is then that value; var x = 0;
\* x = 44; x has completion value 44 and var x = 43; x has 43.
C31_Assignment ==
  [][ /\ (host'.call = "Step" /\ obs'.kind = "AssignmentExpression"
            /\ obs'.up /\ obs'.node.op = "=") =>
           /\ obs'.rights = 1
           /\ obs'.right # Nil
           /\ scopes'[1].vars[obs'.node.kids[1].name] = obs'.right
      /\ (host'.call = "Step" /\ host'.err = "" /\ intrp'.value # intrp.value) =>
           /\ obs'.up /\ obs'.to = "ExpressionStatement"
           /\ intrp'.value = obs'.sent
      /\ (host'.call = "Step" /\ host'.err = "" /\ obs'.up
            /\ obs'.to = "ExpressionStatement" /\ obs'.sent # Nil) =>
           intrp'.value = obs'.sent
      /\ (prog' = SimpleAssignment /\ Terminated') => intrp'.value = Number(44)
      /\ (prog' = VariableDecl /\ Terminated') => intrp'.value = Number(43)
    ]_vars

\* var x = 0; x = 44; x has run to its end, and its completion value is
\* not the 0 that x was initialised with.
C31_Witness ==
  /\ prog = SimpleAssignment /\ Terminated
  /\ scopes[1].vars["x"] = Number(44)
  /\ intrp.value # Number(0)

\* C32: a program that applies ++ to a declared identifier runs to its
\* end without the host panicking for want of a state for the
\* UpdateExpression; var x = 45; x++; x++ then has completion value 46
\* and var x = 45; ++x; ++x has 47, with x = 47 in both.
C32_UpdateExpression ==
  prog \in {Postincrement, Preincrement} =>
    /\ host.err = ""
    /\ Terminated =>
         /\ intrp.value = (IF prog = Postincrement THEN Number(46) ELSE Number(47))
         /\ scopes[1].vars["x"] = Number(47)

\* C33: a program that assigns to a member of an object held by a
\* declared variable runs to its end without the host panicking in
\* lvalue.init; var o = {}; o.foo = 45; o.foo then has completion value 45.
C33_MemberLvalue ==
  prog = PropertyAssignment =>
    /\ host.err = ""
    /\ Terminated => intrp.value = Number(45)

CondKinds == {"ConditionalExpression", "IfStatement"}
CondStates(st) == {i \in 1..Len(st) : st[i].kind \in CondKinds}
Live(st) == {i \in 1..Len(st) : st[i].kind # "free"}

\* C34: a ConditionalExpression or IfStatement starts its test at most
\* once; the value the test delivers decides the branch, the consequent
\* if it is truthy and the alternate otherwise; the step that takes the
\* branch creates a state for that branch alone, with the conditional's
\* parent as its parent, so that the branch's value goes there; the
\* test's four programs end with "then", "else", "then" and "else".
C34_Conditional ==
  [][ /\ \A i \in CondStates(states') : states'[i].lefts <= 1
      /\ (host'.call = "Step" /\ host'.err = "" /\ obs'.up
            /\ obs'.to \in CondKinds /\ obs'.sent # Nil) =>
           /\ states'[intrp'.state].haveResult
           /\ states'[intrp'.state].result = IsTruthy(obs'.sent)
      /\ (host'.call = "Step" /\ host'.err = "" /\ intrp.state # 0
            /\ states[intrp.state].kind \in CondKinds
            /\ states[intrp.state].haveResult) =>
           /\ states'[intrp'.state].node =
                states[intrp.state].node.kids[IF states[intrp.state].result
                                              THEN 2 ELSE 3]
           /\ states'[intrp'.state].parent = states[intrp.state].parent
           /\ Live(states') =
                (Live(states) \ {intrp.state}) \cup {intrp'.state}
      /\ (prog' \in {Cond("true"), If("true")} /\ Terminated') =>
           intrp'.value = ObjectString("then")
      /\ (prog' \in {Cond("false"), If("false")} /\ Terminated') =>
           intrp'.value = ObjectString("else")
    ]_vars

ObjectStates(st) == {i \in 1..Len(st) : st[i].kind = "ObjectExpression"}
Keys(props) == {PropertyKey(props[j].kids[1]) : j \in 1..Len(props)}

\* C35: an ObjectExpression starts the value of its next property only
\* after the values before it have been delivered, and starts no value
\* twice; with k properties under k distinct keys it then delivers an
\* object that has exactly those k keys, in source order, a literal
\* value being the literal's; ({foo: "bar", answer: 42}) ends with an
\* object whose two properties are foo = "bar" and answer = 42.
C35_ObjectExpression ==
  [][ /\ \A i \in ObjectStates(states') : states'[i].lefts <= states'[i].n + 1
      /\ (host'.call = "Step" /\ host'.err = "" /\ intrp.state # 0
            /\ states[intrp.state].kind = "ObjectExpression"
            /\ states[intrp.state].n < Len(states[intrp.state].node.kids)) =>
           /\ states'[intrp'.state].node =
                states[intrp.state].node.kids[states[intrp.state].n + 1].kids[2]
           /\ states'[intrp'.state].parent = intrp.state
      /\ (host'.call = "Step" /\ host'.err = "" /\ obs'.up
            /\ obs'.kind = "ObjectExpression"
            /\ Cardinality(Keys(obs'.node.kids)) = Len(obs'.node.kids)) =>
           /\ obs'.lefts = Len(obs'.node.kids)
           /\ obs'.sent.t = "object"
           /\ Len(obs'.sent.p) = Len(obs'.node.kids)
           /\ \A j \in 1..Len(obs'.node.kids) :
                /\ obs'.sent.p[j].key = PropertyKey(obs'.node.kids[j].kids[1])
                /\ obs'.node.kids[j].kids[2].type = "Literal" =>
                     obs'.sent.p[j].value =
                       PrimitiveFromRaw(obs'.node.kids[j].kids[2].raw)
      /\ (prog' = ObjectExpressionTest /\ Terminated') =>
           intrp'.value =
             SetProperty(SetProperty(ObjectNew, "foo", ObjectString("bar")),
                         "answer", Number(42))
    ]_vars

\* Programs made of the node kinds newState has a state for, with
\* identifier l-values and every variable declared: the tests' programs
\* of that kind, and var x = 2; S; x for statements S that use or declare
\* x and y with an assignment, a binary or a conditional expression.
TermStatements ==
  {ExpressionStatement(e) :
     e \in {AssignmentExpression("=", Identifier("x"), r) : r \in Operands \ {Identifier("y")}}
          \cup {BinaryExpression("+", l, Literal("2")) : l \in Operands \ {Identifier("y")}}}
  \cup {VariableDeclaration(<<VariableDeclarator("y", e)>>) :
          e \in Operands \ {Identifier("y")}}
TermPrograms ==
  (TestPrograms \ {PropertyAssignment, Postincrement, Preincrement})
  \cup {Program(<<VariableDeclaration(<<VariableDeclarator("x", Literal("2"))>>),
                  s, ExpressionStatement(Identifier("x"))>>) : s \in TermStatements}

\* The host constructs one of these programs and then keeps calling Step
\* for as long as a call of Step does something.
TermNext ==
  \/ \E ast \in TermPrograms : New(ast)
  \/ Step
  \/ Run
TermSpec == Init /\ [][TermNext]_vars /\ WF_vars(Step)

\* C39: once New has returned, repeated Step reaches the nil state after
\* finitely many steps, unless a step panics.
C39_Termination == Running ~> (intrp.state = 0 \/ host.err # "")

\* ---- object.Value.ToString
\* The values ToString is applied to: the primitives of TestToString and
\* the integers up to MaxInt either side of zero.
MaxInt == 60
ToStringInputs ==
  {ObjectBoolean(TRUE), ObjectBoolean(FALSE), ObjectNull, ObjectUndefined,
   ObjectString(""), ObjectString("foo"), NegativeZero,
   ObjectNumber(1, 0), ObjectNumber(-1, 0), NaN}
  \cup {ObjectNumber(n, 1) : n \in (0 - MaxInt)..MaxInt}

\* s := v.ToString()
ToStringOf(v) ==
  /\ host' = CallOn("ToString", 0, "", v, ValueToString(v), Nil, "")
  /\ UNCHANGED <<prog, intrp, states, scopes, obs, serVars, weakVars, schedVars,
               codeVars>>

ToStringNext == \E v \in ToStringInputs : ToStringOf(v)
ToStringSpec == Init /\ [][ToStringNext]_vars

\* C37: ToString of negative zero is "0"; of +Infinity, -Infinity and NaN
\* it is "Infinity", "-Infinity" and "NaN".
C37_ToString ==
  host.call = "ToString" =>
    /\ host.arg = NegativeZero => host.ret = "0"
    /\ host.arg = ObjectNumber(1, 0) => host.ret = "Infinity"
    /\ host.arg = ObjectNumber(-1, 0) => host.ret = "-Infinity"
    /\ host.arg = NaN => host.ret = "NaN"

\* ---- the serializer's hooks
\* The restore as deserialize left it, for populating a record once more.
Decoded == [h |-> target, list |-> tlist, err |-> "", msg |-> NoMsg, post |-> FALSE]

\* C38: serialize calls preSerialize once, and has called it even when
\* the walk that follows throws; a deserialize that returns has given
\* every record its object and written every record's content (writing
\* any record once more changes nothing) and calls postDeserialize once;
\* a deserialize that throws does not call it.
C38_HookOrdering ==
  [][ /\ (phase = "run" /\ phase' = "saved") =>
           hooks' = Append(hooks, "preSerialize")
      /\ (phase = "saved" /\ phase' = "restored" /\ derr' = "") =>
           /\ hooks' = Append(hooks, "postDeserialize")
           /\ Len(tlist') = Len(json.recs)
           /\ \A i \in 0..(Len(json.recs) - 1) :
                PopulateRecord(json.recs, i, Decoded').h = target'
      /\ (phase = "saved" /\ phase' = "restored" /\ derr' # "") =>
           hooks' = hooks
    ]_vars

\* A snapshot of three or more records has been restored, and both hooks
\* have run, in that order.
C38_Witness ==
  /\ Restored /\ derr = "" /\ Len(json.recs) >= 3
  /\ hooks = <<"preSerialize", "postDeserialize">>

\* ---- the scheduler
\* One native thread runs the user threads in slices.  runq is the FIFO
\* queue of the runnable threads; a thread that is sleeping or blocked
\* waits outside it until the host wakes or unblocks it.
StepBudget == 2
MaxWork == 3
ThreadIds == 1..MaxThreads
InQueue(q) == {q[i] : i \in 1..Len(q)}

\* The threads of q have waited one more slice.
Waited(th, q) ==
  [t \in ThreadIds |-> IF t \in InQueue(q)
                       THEN [th[t] EXCEPT !.waited = @ + 1] ELSE th[t]]

\* A re-queue that puts the thread at the front of the queue.
RequeueFront(q, t) == <<t>> \o q

\* The thread joins the runnable queue, at the back.
Requeue(q, t) == Append(q, t)
Joined(th, q, t) ==
  [th EXCEPT ![t].status = "runnable", ![t].waited = 0, ![t].peers = Len(q) + 1]

\* A new thread with w steps to run becomes runnable; threads are
\* numbered in the order they are made.
Spawn(t, w) ==
  /\ threads[t].status = "none"
  /\ \A u \in 1..(t - 1) : threads[u].status # "none"
  /\ threads' = Joined([threads EXCEPT ![t].work = w], runq, t)
  /\ runq' = Requeue(runq, t)
  /\ UNCHANGED <<slice, serVars, weakVars, goVars, codeVars>>

\* The thread leaves the slice after k steps for where it goes next.
Left(th, rest, t, k, to) ==
  /\ threads' = IF to = "runnable"
                THEN Joined([Waited(th, rest) EXCEPT ![t].work = @ - k], rest, t)
                ELSE [Waited(th, rest) EXCEPT ![t].work = @ - k, ![t].status = to]
  /\ runq' = IF to = "runnable" THEN Requeue(rest, t) ELSE rest
  /\ slice' = Slice(t, k, to)
  /\ UNCHANGED <<serVars, weakVars, goVars, codeVars>>

\* One tick: pop the first runnable thread and advance it up to
\* StepBudget steps; then re-queue it at the back, or move it to sleeping
\* or blocked if it yielded with a reason, or drop it if it is done.  A
\* killed thread is discarded when it is next scheduled.
Tick ==
  /\ runq # <<>>
  /\ \E t \in {Head(runq)}, rest \in {Tail(runq)} :
       IF threads[t].killed THEN Left(threads, rest, t, 0, "done")
       ELSE IF threads[t].work <= StepBudget
       THEN \/ Left(threads, rest, t, threads[t].work, "done")
            \/ \E k \in 1..(threads[t].work - 1), to \in {"sleeping", "blocked"} :
                 Left(threads, rest, t, k, to)
       ELSE \/ Left(threads, rest, t, StepBudget, "runnable")
            \/ \E k \in 1..StepBudget, to \in {"sleeping", "blocked"} :
                 Left(threads, rest, t, k, to)

\* The host's clock passes a sleeper's wake time, or the host reports
\* that what a thread is blocked on is ready.
Wake(t) ==
  /\ threads[t].status \in {"sleeping", "blocked"}
  /\ threads' = Joined(threads, runq, t)
  /\ runq' = Requeue(runq, t)
  /\ UNCHANGED <<slice, serVars, weakVars, goVars, codeVars>>

\* The thread is killed from outside.
Kill(t) ==
  /\ threads[t].status \in {"runnable", "sleeping", "blocked"}
  /\ ~threads[t].killed
  /\ threads' = [threads EXCEPT ![t].killed = TRUE]
  /\ UNCHANGED <<runq, slice, serVars, weakVars, goVars, codeVars>>

SchedNext ==
  \/ \E t \in ThreadIds, w \in 1..MaxWork : Spawn(t, w)
  \/ Tick
  \/ \E t \in ThreadIds : Wake(t)
  \/ \E t \in ThreadIds : Kill(t)
SchedSpec == Init /\ [][SchedNext]_vars

Runnable(th) == {t \in ThreadIds : th[t].status = "runnable"}

\* C36: the runnable threads are the threads of the queue, each once; a
\* tick advances the thread at the head of the queue, and by StepBudget
\* steps if the thread stays runnable; a thread that joined a queue of N
\* threads, itself included, has waited fewer than N slices.
C36_Fairness ==
  [][ /\ InQueue(runq') = Runnable(threads')
      /\ Len(runq') = Cardinality(Runnable(threads'))
      /\ \A t \in Runnable(threads') :
           /\ threads'[t].waited < threads'[t].peers
           /\ threads'[t].peers <= Cardinality(Runnable(threads')) + threads'[t].waited
      /\ slice' # slice =>
           /\ runq # <<>> /\ slice'.thread = Head(runq)
           /\ slice'.to = "runnable" => slice'.steps = StepBudget
    ]_vars

\* Three threads are runnable, the last tick re-queued one of them after
\* a full slice, and the thread at the head has waited its two slices.
C36_Witness ==
  /\ Len(runq) = 3
  /\ slice.to = "runnable" /\ slice.steps = StepBudget
  /\ threads[Head(runq)].waited = 2 /\ threads[Head(runq)].peers = 3

\* ---- $.utils.code.toSource
\* pool holds the objects toSource is given: arrays (elems), errors
\* (message) and other objects (with the selector $.utils.selector knows
\* for them, "" if it knows none).  Values are the records of the snapshot
\* model; Ref(n) is pool object n.
MaxPool == 3
MaxElems == 2
JsString(s) == Val("string", 0, s)
JsObject(kind, elems, message, selector) ==
  [kind |-> kind, elems |-> elems, message |-> message, selector |-> selector]
ErrorKinds ==
  {"Error", "EvalError", "RangeError", "ReferenceError", "SyntaxError",
   "TypeError", "URIError", "PermissionError"}
PoolIds == 1..Len(pool)
JsValues == {Num("1")} \cup {Ref(n) : n \in PoolIds}

\* What a call of toSource did: the text it returned, or the error it
\* threw (err, with out the message), and opt_seen as the call left it.
Returned(out, seen) == [out |-> out, err |-> "", seen |-> seen]
Thrown(err, msg, seen) == [out |-> msg, err |-> err, seen |-> seen]

\* data.join(', ')
RECURSIVE Join(_)
Join(data) ==
  IF data = <<>> THEN ""
  ELSE IF Len(data) = 1 THEN data[1]
  ELSE data[1] \o ", " \o Join(Tail(data))

\* var selector = $.utils.selector.getSelector(value); ...
Selector(p, value, seen) ==
  IF p[value.n].selector # "" THEN Returned(p[value.n].selector, seen)
  ELSE Thrown("ReferenceError", "[object with no known selector]", seen)

RECURSIVE ToSource(_, _, _, _)
RECURSIVE ArrayData(_, _, _, _, _)

\* One turn of the loop over the array's elements: r is what toSource did
\* for element i; an exception empties data and ends the loop.
ArrayNext(p, elems, i, data, r) ==
  IF r.err # "" THEN [data |-> <<>>, bailed |-> TRUE, seen |-> r.seen]
  ELSE ArrayData(p, elems, i + 1, r.seen, Append(data, r.out))
ArrayData(p, elems, i, seen, data) ==
  IF i > Len(elems) THEN [data |-> data, bailed |-> FALSE, seen |-> seen]
  ELSE ArrayNext(p, elems, i, data, ToSource(p, elems[i], seen, TRUE))

\* if (data) { return '[' + data.join(', ') + ']'; }
AfterArray(p, value, d) ==
  IF ~d.bailed THEN Returned("[" \o Join(d.data) \o "]", d.seen)
  ELSE Selector(p, value, d.seen)

\* if (constructor && msg !== undefined) { return constructor + '(' + msg + ')'; }
AfterError(p, value, m) ==
  IF m.err = "" THEN Returned(p[value.n].kind \o "(" \o m.out \o ")", m.seen)
  ELSE Selector(p, value, m.seen)

\* the branches of type === 'object', once value is in opt_seen
ObjectSource(p, value, seen) ==
  CASE p[value.n].kind = "Array" ->
         AfterArray(p, value, ArrayData(p, p[value.n].elems, 1, seen, <<>>))
    [] p[value.n].kind \in ErrorKinds ->
         AfterError(p, value,
                    IF p[value.n].message = Undefined THEN Returned("", seen)
                    ELSE ToSource(p, p[value.n].message, seen, TRUE))
    [] OTHER -> Selector(p, value, seen)

\* $.utils.code.toSource(value, opt_seen); has is whether opt_seen was
\* passed.
ToSource(p, value, seen, has) ==
  CASE value.t \in {"undefined", "null", "num"} ->
         Returned(IF value.t = "num" THEN value.s ELSE value.t, seen)
    [] value.t = "string" -> Returned("\"" \o value.s \o "\"", seen)
    [] value.t = "ref" ->
         IF has /\ value \in seen
         THEN Thrown("RangeError", "[Recursive data structure]", seen)
         ELSE ObjectSource(p, value, seen \cup {value})

\* The program makes an object, appends to an array, sets an error's
\* message.
Remade(p) ==
  /\ pool' = p
  /\ rendered' = Source(FALSE, Undefined, "", "")
  /\ UNCHANGED <<serVars, weakVars, goVars, schedVars>>
NewValue(kind, selector) ==
  /\ Len(pool) < MaxPool
  /\ Remade(Append(pool, JsObject(kind, <<>>, Undefined, selector)))
Push(a, v) ==
  /\ pool[a].kind = "Array" /\ Len(pool[a].elems) < MaxElems
  /\ Remade([pool EXCEPT ![a].elems = Append(@, v)])
SetMessage(e, v) ==
  /\ pool[e].kind \in ErrorKinds /\ pool[e].message = Undefined
  /\ Remade([pool EXCEPT ![e].message = v])

\* $.utils.code.toSource(value)
CallToSource(v) ==
  /\ \E r \in {ToSource(pool, v, {}, FALSE)} :
       rendered' = Source(TRUE, v, r.out, r.err)
  /\ UNCHANGED <<pool, serVars, weakVars, goVars, schedVars>>

CodeNext ==
  \/ \E kind \in {"Array", "Error"} : NewValue(kind, "")
  \/ \E selector \in {"", "$.thing"} : NewValue("Object", selector)
  \/ \E a \in PoolIds, v \in JsValues : Push(a, v)
  \/ \E e \in PoolIds, v \in JsValues \cup {JsString("a")} : SetMessage(e, v)
  \/ \E v \in JsValues \cup {Undefined, Null, Num("-0")} : CallToSource(v)
CodeSpec == Init /\ [][CodeNext]_vars

\* The objects a value holds directly, and those it leads to.
Held(p, v) ==
  IF v.t # "ref" THEN {}
  ELSE {w \in {p[v.n].elems[i] : i \in 1..Len(p[v.n].elems)} \cup {p[v.n].message} :
          w.t = "ref"}
RECURSIVE Within(_, _)
Within(p, S) ==
  IF UNION {Held(p, v) : v \in S} \subseteq S THEN S
  ELSE Within(p, S \cup UNION {Held(p, v) : v \in S})
Inside(p, v) == Within(p, Held(p, v))

\* v contains itself, or holds something that does.
Recursive(p, v) == \E w \in Inside(p, v) \cup {v} : w \in Inside(p, w)

\* The source text of a value that is not recursive: an array as the
\* literal of its elements, an error as the call of its constructor, any
\* other object as its selector.
RECURSIVE Text(_, _)
TextOf(p, v, values) == Join([i \in 1..Len(values) |-> Text(p, values[i])])
Text(p, v) ==
  CASE v.t \in {"undefined", "null"} -> v.t
    [] v.t = "num" -> v.s
    [] v.t = "string" -> "\"" \o v.s \o "\""
    [] p[v.n].kind = "Array" -> "[" \o TextOf(p, v, p[v.n].elems) \o "]"
    [] p[v.n].kind \in ErrorKinds ->
         p[v.n].kind \o "("
           \o (IF p[v.n].message = Undefined THEN "" ELSE Text(p, p[v.n].message))
           \o ")"
    [] OTHER -> p[v.n].selector

\* C40: toSource of an array that does not contain itself, and that holds
\* numbers, arrays, errors and objects with a selector, returns the array
\* literal with every occurrence of every element rendered, also when
\* the same array or error occurs at two positions.
C40_SharedNotRecursive ==
  (/\ rendered.call /\ rendered.arg.t = "ref"
   /\ pool[rendered.arg.n].kind = "Array"
   /\ ~Recursive(pool, rendered.arg)
   /\ \A w \in Inside(pool, rendered.arg) :
        pool[w.n].kind = "Object" => pool[w.n].selector # "")
    => /\ rendered.err = ""
       /\ rendered.out = Text(pool, rendered.arg)

====
